---- MODULE Spec2Model ----
(***************************************************************************)
(* Verification model of the Vietnamese Law MCP ingestion pipeline and     *)
(* query layer: the HTML parser (scripts/lib/parser.ts), the ingestion     *)
(* loop (scripts/ingest.ts), the database builder (scripts/build-db.ts),   *)
(* the rate-limited fetcher (scripts/lib/fetcher.ts) and the document      *)
(* resolver (src/utils/statute-id.ts).                                     *)
(*                                                                         *)
(* Text is modelled run-length encoded: a text is a sequence of runs       *)
(* [c |-> character, n |-> repetitions], so that lengths beyond the 12000  *)
(* character cap can be computed with.                                     *)
(***************************************************************************)
EXTENDS Integers, Sequences, FiniteSets, Bags, TLC

VARIABLES
    \* ---- scripts/lib/parser.ts, scripts/ingest.ts (one document)
    pc,                 \* position of the pipeline for one document
    source,             \* the stripped text, as a sequence of marked segments
    articleStarts,      \* parser.ts:120
    chapterPositions,   \* parser.ts:134
    i,                  \* parser.ts:145 loop index
    currentChapter,     \* parser.ts:109
    provisions,         \* parser.ts:100
    seenArticles,       \* parser.ts:143
    candidates,         \* history: every candidate the parser loop reached
    seed,               \* the provisions array of the seed file read by build-db.ts
    \* ---- scripts/build-db.ts (SQLite tables)
    legal_provisions,   \* build-db.ts:88
    provisions_fts,     \* build-db.ts:104
    definitions,        \* build-db.ts:143
    definitions_fts,    \* build-db.ts:154
    lastStatement,      \* history: the kind of the last SQL statement run
    \* ---- scripts/ingest.ts, fetchAndParseActs
    acts,               \* number of acts in the list (ingest.ts:246)
    skipFetch,          \* ingest.ts:246
    actIndex,           \* acts the loop of ingest.ts:260 has left behind
    processed,          \* ingest.ts:252
    skipped,            \* ingest.ts:253
    failed,             \* ingest.ts:254
    results,            \* ingest.ts:258, the status of each entry
    seedFiles,          \* acts whose seed file exists in data/seed
    run,                \* "off", "running", "done" (report printed), "aborted"
    \* ---- scripts/lib/fetcher.ts
    calls,              \* the calls of fetchWithRateLimit, each with its position
    sinceLastRequestTime, \* Date.now() - lastRequestTime (fetcher.ts:20), capped
    sinceRequest,       \* history: time since a network request was last started, capped
    requestStarted,     \* history: a network request has been started
    tooClose,           \* history: two requests were started less than MIN_DELAY_MS apart
    \* ---- src/utils/statute-id.ts
    legal_documents,    \* build-db.ts:72, the rows in table order
    input,              \* statute-id.ts:21
    resolved,           \* the value resolveDocumentId returned
    \* ---- src/tools: the tools called on the served database
    request,            \* the tool called and its arguments
    response,           \* what the tool returned
    connection,         \* the database handle of the server: "open" or "closed"
    tables,             \* which of the optional tables the served database has
    eu_documents,       \* build-db.ts:179
    eu_references,      \* build-db.ts:203
    provisionText,      \* the text given to extractEuReferences
    extracted,          \* the references it returned
    \* ---- scripts/build-db.ts, buildDatabase over a seed directory
    seedDir,            \* data/seed: whether it exists, and its seed files in readdir order
    fileIndex,          \* seed files the loop of build-db.ts:374 has left behind
    db_metadata,        \* build-db.ts:228, the rows in insertion order
    primaryImplementationByDocument, \* build-db.ts:371
    \* ---- scripts/lib/parser.ts
    parsedDefinitions,  \* parser.ts:101
    \* ---- src/http-server.ts
    sessions,           \* http-server.ts:92, the keys; each maps to its transport
    transports,         \* the state of the transport made for each session id
    posts,              \* the POST /mcp handlers that opened a session
    issued,             \* the session ids a client has been told
    followUp,           \* history: how the last request carrying an id was answered
    listening           \* FALSE once shutdown has run

pipelineVars == <<pc, source, articleStarts, chapterPositions, i, currentChapter,
                  provisions, seenArticles, candidates, seed>>
tableVars == <<legal_provisions, provisions_fts, definitions, definitions_fts,
               lastStatement>>
ingestVars == <<acts, skipFetch, actIndex, processed, skipped, failed, results,
                seedFiles, run>>
fetchVars == <<calls, sinceLastRequestTime, sinceRequest, requestStarted, tooClose>>
resolveVars == <<legal_documents, input, resolved>>
toolVars == <<request, response>>
servedVars == <<connection, tables, eu_documents, eu_references>>
extractVars == <<provisionText, extracted>>
loadVars == <<seedDir, fileIndex, db_metadata, primaryImplementationByDocument>>
definitionVars == <<parsedDefinitions>>
sessionVars == <<sessions, transports, posts, issued, followUp, listening>>
lateVars == <<loadVars, definitionVars, sessionVars>>
serviceVars == <<ingestVars, fetchVars, resolveVars, toolVars, servedVars, extractVars,
                 lateVars>>
vars == <<pipelineVars, tableVars, serviceVars>>

-----------------------------------------------------------------------------
(* Bounds of the model.                                                    *)

\* Longest source text, in marked segments (chapter headings and articles).
MaxSegments == 4
\* Longest provisions array of a hand-written seed file.
MaxSeedProvisions == 3
\* Longest list of acts handed to fetchAndParseActs.
MaxActs == 3
\* Largest maxRetries argument passed to fetchWithRateLimit.
MaxRetriesArg == 1
\* Most documents in legal_documents when resolveDocumentId is called.
MaxDocs == 2
\* Most rows a table holds when SQL statements are run on it one by one,
\* and the largest rowid handed out.
MaxRows == 2
MaxRowid == 3

-----------------------------------------------------------------------------
(* Run-length encoded text.                                                *)

W(c, n) == [c |-> c, n |-> n]

IsSpace(c) == c \in {" ", "\n"}

RECURSIVE TextLength(_)
TextLength(t) == IF t = <<>> THEN 0 ELSE Head(t).n + TextLength(Tail(t))

\* String.prototype.substring(0, k)
RECURSIVE Prefix(_, _)
Prefix(t, k) ==
    IF t = <<>> \/ k <= 0 THEN <<>>
    ELSE IF Head(t).n >= k THEN <<W(Head(t).c, k)>>
    ELSE <<Head(t)>> \o Prefix(Tail(t), k - Head(t).n)

\* the text from offset k on
RECURSIVE Drop(_, _)
Drop(t, k) ==
    IF t = <<>> \/ k <= 0 THEN t
    ELSE IF Head(t).n > k THEN <<W(Head(t).c, Head(t).n - k)>> \o Tail(t)
    ELSE Drop(Tail(t), k - Head(t).n)

\* String.prototype.substring(from, to)
Substring(t, from, to) == Prefix(Drop(t, from), to - from)

RECURSIVE TrimStart(_)
TrimStart(t) ==
    IF t = <<>> THEN <<>>
    ELSE IF IsSpace(Head(t).c) THEN TrimStart(Tail(t))
    ELSE t

RECURSIVE TrimEnd(_)
TrimEnd(t) ==
    IF t = <<>> THEN <<>>
    ELSE IF IsSpace(t[Len(t)].c) THEN TrimEnd(SubSeq(t, 1, Len(t) - 1))
    ELSE t

\* String.prototype.trim()
Trim(t) == TrimEnd(TrimStart(t))

\* text.replace(/\s+/g, ' ')
RECURSIVE CollapseSpace(_)
CollapseSpace(t) ==
    IF t = <<>> THEN <<>>
    ELSE IF IsSpace(Head(t).c)
         THEN <<W(" ", 1)>> \o CollapseSpace(TrimStart(t))
         ELSE <<Head(t)>> \o CollapseSpace(Tail(t))

\* build-db.ts:234
normalizeWhitespace(text) == Trim(CollapseSpace(text))

\* rawContent.indexOf('\n'): offset of the first newline, -1 when there is none
RECURSIVE IndexOfNewline(_, _)
IndexOfNewline(t, off) ==
    IF t = <<>> THEN -1
    ELSE IF Head(t).c = "\n" THEN off
    ELSE IndexOfNewline(Tail(t), off + Head(t).n)

\* rawContent.search(/[.;]\s/)
RECURSIVE SearchSentenceEnd(_, _)
SearchSentenceEnd(t, off) ==
    IF Len(t) < 2 THEN -1
    ELSE IF Head(t).c \in {".", ";"} /\ IsSpace(t[2].c) THEN off + Head(t).n - 1
    ELSE SearchSentenceEnd(Tail(t), off + Head(t).n)

Min(a, b) == IF a < b THEN a ELSE b
MaxOf(S) == CHOOSE x \in S : \A y \in S : y <= x

RECURSIVE SeqsUpTo(_, _)
\* all sequences over S of length 0..n
SeqsUpTo(S, n) ==
    IF n = 0 THEN {<<>>}
    ELSE LET shorter == SeqsUpTo(S, n - 1)
         IN shorter \cup {Append(q, x) : q \in {r \in shorter : Len(r) = n - 1}, x \in S}

-----------------------------------------------------------------------------
(* The source text of one document, after stripHtml (parser.ts:106).  The  *)
(* text is a sequence of segments: a chapter heading ("Chuong I ...") or   *)
(* an article marker ("Dieu N. ") followed by the text up to the next      *)
(* segment.  The two regular expressions of the parser find exactly the    *)
(* segments' starts.                                                       *)

ChapterNames == {"Chuong I", "Chuong II"}

\* Article bodies: a cross-reference stub (under 15 characters), a short
\* article, and two articles longer than the 12000 character cap.
Bodies == { <<W("x", 10)>>,
            <<W("a", 20)>>,
            <<W("c", 13000)>>,
            <<W("d", 12500)>> }

ArticleSegment(num, body) == [kind |-> "article", num |-> num, name |-> "", body |-> body]
ChapterSegment(name) == [kind |-> "chapter", num |-> "", name |-> name, body |-> <<>>]

\* Article 1 occurs with every body, article 2 as a short article.
Segments == {ArticleSegment("1", b) : b \in Bodies}
            \cup {ArticleSegment("2", <<W("a", 20)>>)}
            \cup {ChapterSegment(c) : c \in ChapterNames}

Sources == SeqsUpTo(Segments, MaxSegments)

\* "\nDieu N. " (parser.ts:119) and "\nChuong I" (parser.ts:133); the first
\* segment of the trimmed text starts at offset 0 without the line break.
MarkerText(seg, k) ==
    (IF k = 1 THEN <<>> ELSE <<W("\n", 1)>>)
    \o (IF seg.kind = "article" THEN <<W("D", 8)>>
        ELSE <<W("H", IF seg.name = "Chuong I" THEN 8 ELSE 9)>>)

RECURSIVE PlainTextFrom(_, _)
PlainTextFrom(segs, k) ==
    IF k > Len(segs) THEN <<>>
    ELSE MarkerText(segs[k], k) \o segs[k].body \o PlainTextFrom(segs, k + 1)

\* parser.ts:106
PlainText(segs) == PlainTextFrom(segs, 1)

SegmentOffset(segs, k) == TextLength(PlainText(SubSeq(segs, 1, k - 1)))

\* parser.ts:119-129: the matches of articlePattern, in text order
RECURSIVE ScanArticles(_, _)
ScanArticles(segs, k) ==
    IF k > Len(segs) THEN <<>>
    ELSE (IF segs[k].kind = "article"
          THEN << [ num |-> segs[k].num,
                    index |-> SegmentOffset(segs, k),
                    matchEnd |-> SegmentOffset(segs, k)
                                 + TextLength(MarkerText(segs[k], k)) ] >>
          ELSE <<>>)
         \o ScanArticles(segs, k + 1)

\* parser.ts:131-140: the matches of chapterPattern, in text order
RECURSIVE ScanChapters(_, _)
ScanChapters(segs, k) ==
    IF k > Len(segs) THEN <<>>
    ELSE (IF segs[k].kind = "chapter"
          THEN << [pos |-> SegmentOffset(segs, k), name |-> segs[k].name] >>
          ELSE <<>>)
         \o ScanChapters(segs, k + 1)

\* A provision's chapter is the heading's name (parser.ts:154); the model keeps
\* the heading's position beside it.  No chapter: undefined.
NoChapter == [name |-> "undefined", pos |-> -1]

Ref(num) == <<"dieu", num>>

\* parser.ts:167-185
TitleOf(rawContent) ==
    LET firstNewline == IndexOfNewline(rawContent, 0)
        firstSentenceEnd == SearchSentenceEnd(rawContent, 0)
        cut == Trim(Prefix(rawContent, Min(120, TextLength(rawContent))))
    IN  IF firstNewline > 0 /\ firstNewline < 200
        THEN Trim(Prefix(rawContent, firstNewline))
        ELSE IF firstSentenceEnd > 0 /\ firstSentenceEnd < 200
        THEN Trim(Prefix(rawContent, firstSentenceEnd + 1))
        ELSE IF TextLength(cut) < TextLength(rawContent)
        THEN cut \o <<W(".", 3)>>
        ELSE cut

\* parser.ts:152-156
ChapterAt(chapter, positions, index) ==
    LET before == {k \in 1..Len(positions) : positions[k].pos < index}
    IN  IF before = {} THEN chapter ELSE positions[MaxOf(before)]

\* parser.ts:191: does the new candidate replace the stored provision?
ReplacesExisting(content, existing) ==
    TextLength(content) > TextLength(existing.content)

\* parser.ts:192-198, 204-210
NewProvision(num, chapter, title, content) ==
    [ provision_ref |-> Ref(num), chapter |-> chapter, section |-> num,
      title |-> title, content |-> Prefix(content, 12000) ]

\* The words the parser looks for in a title (parser.ts:216-219), each a run
\* of its own; a run shorter than the word is a word that was cut.
Keywords == {"giai thich", "tu ngu", "interpretation", "definition"}

\* the number of characters of a word that makes a run of its own
WordLength(c) ==
    CASE c \in {"giai thich", "GIAI THICH", "definition"} -> 10
      [] c = "tu ngu" -> 6
      [] c = "interpretation" -> 14
      [] c = "1. X la yyyyyy" -> 14
      [] c = "1. X la yy" -> 10
      [] OTHER -> 1

\* title.toLowerCase()
LowerCaseTitle(t) ==
    [k \in 1..Len(t) |-> IF t[k].c = "GIAI THICH" THEN W("giai thich", t[k].n) ELSE t[k]]

\* String.prototype.includes(word)
IncludesWord(t, word) ==
    \E k \in 1..Len(t) : t[k].c = word /\ t[k].n = WordLength(word)

\* parser.ts:215-220
IsInterpretationTitle(title) ==
    \E word \in Keywords : IncludesWord(LowerCaseTitle(title), word)

\* The numbered clauses "1. X la yyyyyy" and "1. X la yy": what defPattern
\* (parser.ts:262) captures as the term and as the definition.
ClauseTerm(c) == <<W("X", 1)>>
ClauseDefinition(c) == IF c = "1. X la yyyyyy" THEN <<W("y", 6)>> ELSE <<W("y", 2)>>
IsClause(piece) ==
    piece.c \in {"1. X la yyyyyy", "1. X la yy"} /\ piece.n = WordLength(piece.c)

\* parser.ts:253-278.  In the texts of the model a numbered clause is the last
\* run of the content, so the lookahead of defPattern finds the end of the
\* string; the clause is kept when its term has 1..199 characters and its
\* definition more than 5 (parser.ts:270).
extractDefinitions(content, sourceProvision) ==
    IF content # <<>> /\ IsClause(content[Len(content)])
    THEN LET term == ClauseTerm(content[Len(content)].c)
             definition == ClauseDefinition(content[Len(content)].c)
         IN  IF TextLength(term) > 0 /\ TextLength(term) < 200
                /\ TextLength(definition) > 5
             THEN << [ term |-> term, definition |-> Prefix(definition, 4000),
                       source_provision |-> sourceProvision ] >>
             ELSE <<>>
    ELSE <<>>

\* parser.ts:145-223, one iteration of the loop over articleStarts.  A
\* recurring article number ends the iteration at the continue of line 200,
\* before the title is looked at (parser.ts:215).
ParseArticle ==
    /\ pc = "parse"
    /\ i < Len(articleStarts)
    /\ LET artStart == articleStarts[i + 1]
           artEnd == IF i + 1 < Len(articleStarts)
                     THEN articleStarts[i + 2].index
                     ELSE TextLength(PlainText(source))
           chapter == ChapterAt(currentChapter, chapterPositions, artStart.index)
           articleNum == artStart.num
           rawContent == Trim(Substring(PlainText(source), artStart.matchEnd, artEnd))
           title == TitleOf(rawContent)
           content == Trim(rawContent)
           prov == NewProvision(articleNum, chapter, title, content)
       IN  /\ currentChapter' = chapter
           /\ i' = i + 1
           /\ IF TextLength(rawContent) < 15 \/ TextLength(content) <= 10
              THEN UNCHANGED <<provisions, seenArticles, candidates>>
              ELSE /\ candidates' = Append(candidates,
                                           [num |-> articleNum, content |-> content])
                   /\ IF articleNum \in DOMAIN seenArticles
                      THEN /\ provisions' =
                                IF ReplacesExisting(content, provisions[seenArticles[articleNum]])
                                THEN [provisions EXCEPT ![seenArticles[articleNum]] = prov]
                                ELSE provisions
                           /\ UNCHANGED seenArticles
                      ELSE /\ seenArticles' =
                                [n \in DOMAIN seenArticles \cup {articleNum} |->
                                    IF n = articleNum THEN Len(provisions) + 1
                                    ELSE seenArticles[n]]
                           /\ provisions' = Append(provisions, prov)
           /\ parsedDefinitions' =
                IF /\ TextLength(rawContent) >= 15
                   /\ TextLength(content) <= 10
                      \/ articleNum \notin DOMAIN seenArticles
                   /\ IsInterpretationTitle(title)
                THEN parsedDefinitions \o extractDefinitions(content, Ref(articleNum))
                ELSE parsedDefinitions
    /\ UNCHANGED <<pc, source, articleStarts, chapterPositions, seed>>
    /\ UNCHANGED <<tableVars, ingestVars, fetchVars, resolveVars, toolVars, servedVars,
                   extractVars, loadVars, sessionVars>>

\* parser.ts:225-238: the loop is over, the parsed act is returned (ingest.ts:304)
ParseReturn ==
    /\ pc = "parse"
    /\ i = Len(articleStarts)
    /\ pc' = "merge"
    /\ UNCHANGED <<source, articleStarts, chapterPositions, i, currentChapter,
                   provisions, seenArticles, candidates, seed>>
    /\ UNCHANGED <<tableVars, serviceVars>>


-----------------------------------------------------------------------------
(* scripts/ingest.ts: curated provisions and the seed file.                *)

\* SQL NULL / JavaScript undefined, for a text column
Null == <<W("NULL", 0)>>

CuratedProvision(num, content) ==
    [ provision_ref |-> Ref(num), chapter |-> [name |-> "Chuong I - curated", pos |-> -1],
      section |-> num, title |-> <<W("t", 5)>>, content |-> content ]

\* ingest.ts:127-244: CURATED_PROVISIONS[actId].provisions: absent for an act
\* without curated data, else a list in which no provision_ref occurs twice.
CuratedLists == { <<>>,
                  <<CuratedProvision("1", <<W("k", 40)>>)>>,
                  <<CuratedProvision("1", <<W("k", 40)>>),
                    CuratedProvision("3", <<W("l", 50)>>)>> }

\* ingest.ts:101
ExistingRefs(provs) == {provs[k].provision_ref : k \in 1..Len(provs)}

AddCuratedAll(provs, existingRefs, curated) == provs \o curated

\* ingest.ts:102-107
RECURSIVE AddCurated(_, _, _)
AddCurated(provs, existingRefs, curated) ==
    IF curated = <<>> THEN provs
    ELSE AddCurated(IF Head(curated).provision_ref \notin existingRefs
                    THEN Append(provs, Head(curated))
                    ELSE provs,
                    existingRefs, Tail(curated))

\* ingest.ts:93-119 (called at ingest.ts:308)
MergeWithCurated ==
    /\ pc = "merge"
    /\ \E curated \in CuratedLists :
          provisions' = AddCurated(provisions, ExistingRefs(provisions), curated)
    /\ pc' = "write"
    /\ UNCHANGED <<source, articleStarts, chapterPositions, i, currentChapter,
                   seenArticles, candidates, seed>>
    /\ UNCHANGED <<tableVars, serviceVars>>

\* ingest.ts:320: the seed file is written; build-db.ts:376-377 reads it
WriteSeed ==
    /\ pc = "write"
    /\ seed' = provisions
    /\ pc' = "build"
    /\ UNCHANGED <<source, articleStarts, chapterPositions, i, currentChapter,
                   provisions, seenArticles, candidates>>
    /\ UNCHANGED <<tableVars, serviceVars>>

-----------------------------------------------------------------------------
(* scripts/build-db.ts: deduplication, the tables and their triggers.      *)

\* provision_ref.trim() on a reference given as a sequence of pieces
RECURSIVE TrimRef(_)
TrimRef(ref) ==
    IF ref = <<>> THEN <<>>
    ELSE IF Head(ref) = " " THEN TrimRef(Tail(ref))
    ELSE IF ref[Len(ref)] = " " THEN TrimRef(SubSeq(ref, 1, Len(ref) - 1))
    ELSE ref

IndexOfRef(provs, ref) ==
    LET hits == {k \in 1..Len(provs) : provs[k].provision_ref = ref}
    IN  IF hits = {} THEN 0 ELSE CHOOSE k \in hits : TRUE

\* a deduplication that keeps the first provision of each reference
FirstKept(prov, existing) == FALSE

\* build-db.ts:243: does prov replace the entry kept for its reference?
LongerNormalized(prov, existing) ==
    TextLength(normalizeWhitespace(prov.content))
        > TextLength(normalizeWhitespace(existing.content))

\* build-db.ts:238-248: byRef is a Map, so a replaced entry keeps its place
RECURSIVE DedupeInto(_, _)
DedupeInto(byRef, provs) ==
    IF provs = <<>> THEN byRef
    ELSE LET prov == Head(provs)
             ref == TrimRef(prov.provision_ref)
             at == IndexOfRef(byRef, ref)
             kept == [prov EXCEPT !.provision_ref = ref]
         IN  DedupeInto(IF at = 0 THEN Append(byRef, kept)
                        ELSE IF LongerNormalized(prov, byRef[at])
                        THEN [byRef EXCEPT ![at] = kept]
                        ELSE byRef,
                        Tail(provs))

dedupeProvisions(seedProvisions) == DedupeInto(<<>>, seedProvisions)

\* the entry of an FTS5 external-content index for one base row
ProvisionEntry(row) == [rowid |-> row.id, a |-> row.content, b |-> row.title]
DefinitionEntry(row) == [rowid |-> row.id, a |-> row.term, b |-> row.definition]

\* build-db.ts:111-114
provisions_ai(fts, new) == fts (+) SetToBag({ProvisionEntry(new)})
\* build-db.ts:116-119
provisions_ad(fts, old) == fts (-) SetToBag({ProvisionEntry(old)})
\* build-db.ts:121-126
provisions_au_keep_old(fts, old, new) == fts (+) SetToBag({ProvisionEntry(new)})
provisions_au(fts, old, new) ==
    (fts (-) SetToBag({ProvisionEntry(old)})) (+) SetToBag({ProvisionEntry(new)})

\* build-db.ts:161-164
definitions_ai(fts, new) == fts (+) SetToBag({DefinitionEntry(new)})
\* build-db.ts:166-169
definitions_ad(fts, old) == fts (-) SetToBag({DefinitionEntry(old)})
\* build-db.ts:171-176
definitions_au(fts, old, new) ==
    (fts (-) SetToBag({DefinitionEntry(old)})) (+) SetToBag({DefinitionEntry(new)})

\* INTEGER PRIMARY KEY: the largest rowid plus one
NextRowid(rows) == IF rows = {} THEN 1 ELSE MaxOf({r.id : r \in rows}) + 1

DocumentId == <<"doc">>

\* build-db.ts:381-386: the row insertDoc.run stores for the seed file, whose
\* title_en and short_name are absent and become NULL
SeedDocument ==
    [ id |-> DocumentId, title |-> <<"Luat">>, title_en |-> <<"NULL">>,
      short_name |-> <<"NULL">>, status |-> "in_force" ]

\* build-db.ts:97, UNIQUE(document_id, provision_ref)
ProvisionConflict(rows, document_id, provision_ref) ==
    \E r \in rows : r.document_id = document_id /\ r.provision_ref = provision_ref

\* build-db.ts:150, UNIQUE(document_id, term)
DefinitionConflict(rows, document_id, term) ==
    \E r \in rows : r.document_id = document_id /\ r.term = term

\* build-db.ts:391-395: the row insertProvision.run stores for a seed provision
ProvisionRow(id, document_id, prov) ==
    [ id |-> id, document_id |-> document_id, provision_ref |-> prov.provision_ref,
      chapter |-> IF prov.chapter = NoChapter THEN "NULL" ELSE prov.chapter.name,
      section |-> prov.section, title |-> prov.title, content |-> prov.content ]

\* build-db.ts:390-396: the inserts of one document's provisions, in order; a
\* UNIQUE violation throws and ends the load
RECURSIVE InsertProvisions(_, _)
InsertProvisions(db, provs) ==
    IF provs = <<>> \/ ~db.ok THEN db
    ELSE LET row == ProvisionRow(NextRowid(db.rows), DocumentId, Head(provs))
         IN  IF ProvisionConflict(db.rows, DocumentId, row.provision_ref)
             THEN [db EXCEPT !.ok = FALSE]
             ELSE InsertProvisions([ rows |-> db.rows \cup {row},
                                     fts |-> provisions_ai(db.fts, row),
                                     ok |-> TRUE ],
                                   Tail(provs))

\* build-db.ts:373-443: loadAll for one seed file; the transaction is rolled
\* back when an insert throws
BuildDatabase ==
    /\ pc = "build"
    /\ LET db == InsertProvisions([rows |-> {}, fts |-> EmptyBag, ok |-> TRUE],
                                  dedupeProvisions(seed))
       IN  IF db.ok
           THEN /\ legal_documents' = Append(legal_documents, SeedDocument)
                /\ legal_provisions' = db.rows
                /\ provisions_fts' = db.fts
                /\ lastStatement' = "insert"
                /\ pc' = "built"
           ELSE /\ UNCHANGED <<legal_documents, legal_provisions, provisions_fts,
                               lastStatement>>
                /\ pc' = "build_failed"
    /\ UNCHANGED <<source, articleStarts, chapterPositions, i, currentChapter,
                   provisions, seenArticles, candidates, seed>>
    /\ UNCHANGED <<definitions, definitions_fts, input, resolved>>
    /\ UNCHANGED <<ingestVars, fetchVars, toolVars, servedVars, extractVars, lateVars>>

\* Hand-written seed files: provision_ref may recur and may carry blanks.
SeedRefs == { <<"dieu", "1">>, <<" ", "dieu", "1">>, <<"dieu", "2">> }
SeedContents == { <<W("a", 6)>>,
                  <<W("b", 3), W(" ", 4), W("b", 1)>>,
                  <<W("c", 9)>> }
\* the provisions written with the longest content carry a title
SeedProvisions ==
    { [ provision_ref |-> r, chapter |-> NoChapter, section |-> r[Len(r)],
        title |-> IF c = <<W("c", 9)>> THEN <<W("t", 5)>> ELSE Null,
        content |-> c ] : r \in SeedRefs, c \in SeedContents }
HandSeeds == SeqsUpTo(SeedProvisions, MaxSeedProvisions) \ {<<>>}

-----------------------------------------------------------------------------
(* The parts of the state a specification does not use stay as they are    *)
(* before the part is started.                                             *)

\* fetcher.ts:18
MIN_DELAY_MS == 500

CallNames == {"A", "B"}

\* a call that was not made yet; status 0: no attempt has ended
NoCall == [pc |-> "idle", attempt |-> 0, maxRetries |-> 0, timer |-> 0,
           status |-> 0, requests |-> 0]

IngestOff ==
    /\ acts = 0
    /\ skipFetch = FALSE
    /\ actIndex = 0
    /\ processed = 0
    /\ skipped = 0
    /\ failed = 0
    /\ results = <<>>
    /\ seedFiles = {}
    /\ run = "off"

\* fetcher.ts:20: lastRequestTime = 0, half a century before Date.now()
FetchOff ==
    /\ calls = [c \in CallNames |-> NoCall]
    /\ sinceLastRequestTime = MIN_DELAY_MS
    /\ sinceRequest = MIN_DELAY_MS
    /\ requestStarted = FALSE
    /\ tooClose = FALSE

ResolveOff ==
    /\ legal_documents = <<>>
    /\ input = <<>>
    /\ resolved = [state |-> "off", id |-> <<>>]

NoRequest == [tool |-> "none"]

ToolsOff ==
    /\ request = NoRequest
    /\ response = NoRequest

\* build-db.ts:178-225: the tables a served database may lack
OptionalTables == {"eu_documents", "eu_references"}

\* extractEuReferences has not been called
ExtractOff ==
    /\ provisionText = <<>>
    /\ extracted = <<>>

\* buildDatabase is not running
LoadOff ==
    /\ seedDir = [exists |-> FALSE, files |-> <<>>]
    /\ fileIndex = 0
    /\ db_metadata = <<>>
    /\ primaryImplementationByDocument = {}

\* parser.ts:101
DefinitionsOff == parsedDefinitions = <<>>

\* Most sessions the HTTP server is asked to open.
MaxSessions == 2
SessionIds == 1..MaxSessions

NoPost == [pc |-> "none", kind |-> "none"]
NoFollowUp == [id |-> 0, method |-> "none", transport |-> "none", outcome |-> "none"]

\* the HTTP server has taken no request
SessionsOff ==
    /\ sessions = {}
    /\ transports = [id \in SessionIds |-> "none"]
    /\ posts = [id \in SessionIds |-> NoPost]
    /\ issued = {}
    /\ followUp = NoFollowUp
    /\ listening = TRUE

LateOff == LoadOff /\ DefinitionsOff /\ SessionsOff

\* a database with every table, the EU tables empty, on an open handle
FullDatabase ==
    /\ connection = "open"
    /\ tables = OptionalTables
    /\ eu_documents = {}
    /\ eu_references = {}

PipelineOff ==
    /\ source = <<>>
    /\ articleStarts = <<>>
    /\ chapterPositions = <<>>
    /\ i = 0
    /\ currentChapter = NoChapter
    /\ provisions = <<>>
    /\ seenArticles = <<>>
    /\ candidates = <<>>
    /\ seed = <<>>


-----------------------------------------------------------------------------
(* The pipeline for one document: parse, merge, write the seed, build; or  *)
(* build from a hand-written seed.                                         *)

TablesEmpty ==
    /\ legal_provisions = {}
    /\ provisions_fts = EmptyBag
    /\ definitions = {}
    /\ definitions_fts = EmptyBag
    /\ lastStatement = "none"

InitParse ==
    /\ pc = "parse"
    /\ source \in Sources
    /\ articleStarts = ScanArticles(source, 1)
    /\ chapterPositions = ScanChapters(source, 1)
    /\ i = 0
    /\ currentChapter = NoChapter
    /\ provisions = <<>>
    /\ seenArticles = <<>>
    /\ candidates = <<>>
    /\ seed = <<>>
    /\ TablesEmpty
    /\ IngestOff /\ FetchOff /\ ResolveOff /\ ToolsOff /\ FullDatabase /\ ExtractOff
    /\ LateOff

InitSeed ==
    /\ pc = "build"
    /\ source = <<>>
    /\ articleStarts = <<>>
    /\ chapterPositions = <<>>
    /\ i = 0
    /\ currentChapter = NoChapter
    /\ provisions = <<>>
    /\ seenArticles = <<>>
    /\ candidates = <<>>
    /\ seed \in HandSeeds
    /\ TablesEmpty
    /\ IngestOff /\ FetchOff /\ ResolveOff /\ ToolsOff /\ FullDatabase /\ ExtractOff
    /\ LateOff

Init == InitParse \/ InitSeed

Next ==
    \/ ParseArticle
    \/ ParseReturn
    \/ MergeWithCurated
    \/ WriteSeed
    \/ BuildDatabase

Spec == Init /\ [][Next]_vars


-----------------------------------------------------------------------------
(* Properties of the pipeline (specification Spec).                        *)

UniqueRefs(provs) ==
    \A j, k \in 1..Len(provs) :
        j # k => provs[j].provision_ref # provs[k].provision_ref

UniqueRows(rows) ==
    \A r1, r2 \in rows :
        r1.id # r2.id =>
            ~(r1.document_id = r2.document_id /\ r1.provision_ref = r2.provision_ref)

\* C1: no two provisions of one document share a provision_ref: in the list
\* the parser builds, in that list after mergeWithCurated, and in the rows of
\* legal_provisions, which buildDatabase stores for every seed, one row for
\* each reference the seed names.
C1_UniqueProvisionRefs ==
    /\ UniqueRefs(provisions)
    /\ UniqueRows(legal_provisions)
    /\ pc # "build_failed"
    /\ pc = "built" =>
          /\ {r.provision_ref : r \in legal_provisions}
                = {TrimRef(seed[k].provision_ref) : k \in 1..Len(seed)}
          /\ Cardinality(legal_provisions)
                = Cardinality({TrimRef(seed[k].provision_ref) : k \in 1..Len(seed)})

\* C1 witness: a text in which an article number recurred was parsed, curated
\* provisions were merged in, of which one was new and one was already there,
\* and the seed was built.
C1_Witness ==
    /\ pc = "built"
    /\ \E j, k \in 1..Len(candidates) : j # k /\ candidates[j].num = candidates[k].num
    /\ \E k \in 1..Len(seed) : seed[k].provision_ref = Ref("3")
    /\ Ref("1") \in ExistingRefs(seed)
    /\ Cardinality(legal_provisions) = Len(seed)

CandidatesOf(num) ==
    {candidates[k].content : k \in {j \in 1..Len(candidates) : candidates[j].num = num}}

\* C2: when an article number is extracted more than once and the candidates
\* differ in content length, the provision kept for it is the candidate with
\* the longer content (stored cut to 12000 characters); and of the seed
\* provisions with one provision_ref, buildDatabase stores the one with the
\* longer whitespace-normalized content.
C2_KeepsLongerCandidate ==
    /\ \A num \in DOMAIN seenArticles :
          \A c \in CandidatesOf(num) :
              (\A d \in CandidatesOf(num) \ {c} : TextLength(d) < TextLength(c))
                  => provisions[seenArticles[num]].content = Prefix(c, 12000)
    /\ pc = "built" =>
          \A k \in 1..Len(seed) :
              (\A j \in 1..Len(seed) :
                  (j # k /\ TrimRef(seed[j].provision_ref) = TrimRef(seed[k].provision_ref))
                      => TextLength(normalizeWhitespace(seed[j].content))
                            < TextLength(normalizeWhitespace(seed[k].content)))
                  => \E r \in legal_provisions :
                        /\ r.provision_ref = TrimRef(seed[k].provision_ref)
                        /\ r.content = seed[k].content

\* C3: chapter assignment is monotonic over the list parseVietnameseHtml
\* returns: a later provision's chapter heading lies at a position greater than
\* or equal to that of an earlier provision's (no chapter counting as lowest).
C3_ChapterMonotonic ==
    pc \in {"parse", "merge"} =>
        \A j, k \in 1..Len(provisions) :
            j < k => provisions[j].chapter.pos <= provisions[k].chapter.pos


-----------------------------------------------------------------------------
(* SQL statements on the indexed tables, run one by one (specification     *)
(* SpecFts): every INSERT, UPDATE and DELETE fires the table's trigger.    *)

SqlRefs == {Ref("1"), Ref("2")}
SqlContents == {<<W("a", 6)>>, <<W("c", 9)>>}
SqlTitles == {Null, <<W("t", 5)>>}
SqlTerms == {<<W("m", 4)>>, <<W("n", 4)>>}
SqlDefinitions == {<<W("p", 7)>>, <<W("q", 7)>>}

\* INSERT INTO legal_provisions, with trigger provisions_ai
InsertProvisionSql ==
    /\ pc = "sql"
    /\ Cardinality(legal_provisions) < MaxRows
    /\ NextRowid(legal_provisions) <= MaxRowid
    /\ \E ref \in SqlRefs, content \in SqlContents, title \in SqlTitles :
          /\ ~ProvisionConflict(legal_provisions, DocumentId, ref)
          /\ LET new == [ id |-> NextRowid(legal_provisions), document_id |-> DocumentId,
                          provision_ref |-> ref, chapter |-> "NULL", section |-> ref[2],
                          title |-> title, content |-> content ]
             IN  /\ legal_provisions' = legal_provisions \cup {new}
                 /\ provisions_fts' = provisions_ai(provisions_fts, new)
    /\ lastStatement' = "insert"
    /\ UNCHANGED <<definitions, definitions_fts>>
    /\ UNCHANGED <<pipelineVars, serviceVars>>

\* UPDATE legal_provisions SET content = ?, title = ?, with trigger provisions_au
UpdateProvisionSql ==
    /\ pc = "sql"
    /\ \E old \in legal_provisions, content \in SqlContents, title \in SqlTitles :
          LET new == [old EXCEPT !.content = content, !.title = title]
          IN  /\ legal_provisions' = (legal_provisions \ {old}) \cup {new}
              /\ provisions_fts' = provisions_au(provisions_fts, old, new)
    /\ lastStatement' = "update"
    /\ UNCHANGED <<definitions, definitions_fts>>
    /\ UNCHANGED <<pipelineVars, serviceVars>>

\* DELETE FROM legal_provisions, with trigger provisions_ad
DeleteProvisionSql ==
    /\ pc = "sql"
    /\ \E old \in legal_provisions :
          /\ legal_provisions' = legal_provisions \ {old}
          /\ provisions_fts' = provisions_ad(provisions_fts, old)
    /\ lastStatement' = "delete"
    /\ UNCHANGED <<definitions, definitions_fts>>
    /\ UNCHANGED <<pipelineVars, serviceVars>>

\* INSERT INTO definitions, with trigger definitions_ai
InsertDefinitionSql ==
    /\ pc = "sql"
    /\ Cardinality(definitions) < MaxRows
    /\ NextRowid(definitions) <= MaxRowid
    /\ \E term \in SqlTerms, definition \in SqlDefinitions :
          /\ ~DefinitionConflict(definitions, DocumentId, term)
          /\ LET new == [ id |-> NextRowid(definitions), document_id |-> DocumentId,
                          term |-> term, definition |-> definition,
                          source_provision |-> "NULL" ]
             IN  /\ definitions' = definitions \cup {new}
                 /\ definitions_fts' = definitions_ai(definitions_fts, new)
    /\ lastStatement' = "insert"
    /\ UNCHANGED <<legal_provisions, provisions_fts>>
    /\ UNCHANGED <<pipelineVars, serviceVars>>

\* UPDATE definitions SET definition = ?, with trigger definitions_au
UpdateDefinitionSql ==
    /\ pc = "sql"
    /\ \E old \in definitions, definition \in SqlDefinitions :
          LET new == [old EXCEPT !.definition = definition]
          IN  /\ definitions' = (definitions \ {old}) \cup {new}
              /\ definitions_fts' = definitions_au(definitions_fts, old, new)
    /\ lastStatement' = "update"
    /\ UNCHANGED <<legal_provisions, provisions_fts>>
    /\ UNCHANGED <<pipelineVars, serviceVars>>

\* DELETE FROM definitions, with trigger definitions_ad
DeleteDefinitionSql ==
    /\ pc = "sql"
    /\ \E old \in definitions :
          /\ definitions' = definitions \ {old}
          /\ definitions_fts' = definitions_ad(definitions_fts, old)
    /\ lastStatement' = "delete"
    /\ UNCHANGED <<legal_provisions, provisions_fts>>
    /\ UNCHANGED <<pipelineVars, serviceVars>>

InitFts ==
    /\ pc = "sql"
    /\ PipelineOff
    /\ TablesEmpty
    /\ IngestOff /\ FetchOff /\ ResolveOff /\ ToolsOff /\ FullDatabase /\ ExtractOff
    /\ LateOff

NextFts ==
    \/ InsertProvisionSql
    \/ UpdateProvisionSql
    \/ DeleteProvisionSql
    \/ InsertDefinitionSql
    \/ UpdateDefinitionSql
    \/ DeleteDefinitionSql

SpecFts == InitFts /\ [][NextFts]_vars

\* C5: the full-text index equals the base table: provisions_fts holds exactly
\* one entry for each row of legal_provisions, with the row's current content
\* and title, and nothing else; likewise definitions_fts and definitions.
C5_FtsInSync ==
    /\ provisions_fts = SetToBag({ProvisionEntry(r) : r \in legal_provisions})
    /\ definitions_fts = SetToBag({DefinitionEntry(r) : r \in definitions})

\* C5 witness: after an insert, a delete of the first row and an update, with
\* both tables holding rows
C5_Witness ==
    /\ lastStatement = "update"
    /\ legal_provisions # {}
    /\ \A r \in legal_provisions : r.id # 1
    /\ definitions # {}
    /\ \E r \in definitions : r.definition = <<W("q", 7)>>


-----------------------------------------------------------------------------
(* scripts/ingest.ts, fetchAndParseActs: the loop over the acts            *)
(* (specification SpecIngest).  What the file system, the network and the  *)
(* parser do for an act is chosen when the loop reaches the act.           *)

\* what fs finds at data/source/<id>.html in --skip-fetch mode
SourceFileStates == {"absent", "long", "short", "unreadable"}
\* what fetchWithRateLimit gives: 200 with a body over 1000 characters,
\* another answer, or a thrown error
FetchOutcomes == {"ok", "other", "throws"}

\* ingest.ts:280-299: the value of html after the fetch or the cache read
HtmlAfterRead(sourceFile, fetch) ==
    IF skipFetch
    THEN IF sourceFile \in {"long", "short"} THEN sourceFile ELSE "null"
    ELSE IF fetch = "ok" THEN "long" ELSE "null"

\* ingest.ts:277-329: does the try block throw?  Reading the cached source
\* (281), parsing (304) and writing the seed (320) are not guarded inside it;
\* a fetch error and a failed write of the source file are caught at 295.
TryBlockThrows(sourceFile, html, parseOk, seedWriteOk) ==
    \/ skipFetch /\ sourceFile = "unreadable"
    \/ html = "long" /\ ~parseOk
    \/ ~seedWriteOk

\* ingest.ts:265-275: --skip-fetch and the seed file exists and can be read
UseCachedSeed ==
    /\ run = "running"
    /\ actIndex < acts
    /\ skipFetch
    /\ seedFiles' = seedFiles \cup {actIndex + 1}
    /\ results' = Append(results, "cached")
    /\ skipped' = skipped + 1
    /\ processed' = processed + 1
    /\ actIndex' = actIndex + 1
    /\ UNCHANGED <<acts, skipFetch, failed, run>>
    /\ UNCHANGED <<pipelineVars, tableVars, fetchVars, resolveVars, toolVars, servedVars, extractVars, lateVars>>

\* ingest.ts:266: --skip-fetch and the seed file exists, but readFileSync or
\* JSON.parse throws; the statement stands before the try of line 277, so the
\* error leaves fetchAndParseActs and main (ingest.ts:394-397)
CachedSeedUnreadable ==
    /\ run = "running"
    /\ actIndex < acts
    /\ skipFetch
    /\ seedFiles' = seedFiles \cup {actIndex + 1}
    /\ run' = "aborted"
    /\ UNCHANGED <<acts, skipFetch, actIndex, processed, skipped, failed, results>>
    /\ UNCHANGED <<pipelineVars, tableVars, fetchVars, resolveVars, toolVars, servedVars, extractVars, lateVars>>

\* ingest.ts:277-354: the act is fetched or read from the cache, parsed and
\* written; an error falls back to the curated seed, and when that cannot be
\* written either the act is recorded as failed
IngestAct ==
    /\ run = "running"
    /\ actIndex < acts
    /\ \E sourceFile \in SourceFileStates, fetch \in FetchOutcomes,
          parseOk \in BOOLEAN, seedWriteOk \in BOOLEAN, fallbackWriteOk \in BOOLEAN :
          LET html == HtmlAfterRead(sourceFile, fetch)
              threw == TryBlockThrows(sourceFile, html, parseOk, seedWriteOk)
          IN  IF ~threw
              THEN /\ results' = Append(results, IF html # "null" THEN "OK" ELSE "fallback")
                   /\ seedFiles' = seedFiles \cup {actIndex + 1}
                   /\ UNCHANGED failed
              ELSE IF fallbackWriteOk
              THEN /\ results' = Append(results, "fallback (error)")
                   /\ seedFiles' = seedFiles \cup {actIndex + 1}
                   /\ UNCHANGED failed
              ELSE /\ results' = Append(results, "ERROR")
                   /\ failed' = failed + 1
                   /\ UNCHANGED seedFiles
    /\ processed' = processed + 1
    /\ actIndex' = actIndex + 1
    /\ UNCHANGED <<acts, skipFetch, skipped, run>>
    /\ UNCHANGED <<pipelineVars, tableVars, fetchVars, resolveVars, toolVars, servedVars, extractVars, lateVars>>

\* ingest.ts:357-374: the loop is over, the report is printed
IngestReport ==
    /\ run = "running"
    /\ actIndex = acts
    /\ run' = "done"
    /\ UNCHANGED <<acts, skipFetch, actIndex, processed, skipped, failed, results,
                   seedFiles>>
    /\ UNCHANGED <<pipelineVars, tableVars, fetchVars, resolveVars, toolVars, servedVars, extractVars, lateVars>>

\* ingest.ts:246-258
InitIngest ==
    /\ pc = "ingest"
    /\ PipelineOff
    /\ TablesEmpty
    /\ FetchOff /\ ResolveOff /\ ToolsOff /\ FullDatabase /\ ExtractOff
    /\ LateOff
    /\ acts \in 0..MaxActs
    /\ skipFetch \in BOOLEAN
    /\ actIndex = 0
    /\ processed = 0
    /\ skipped = 0
    /\ failed = 0
    /\ results = <<>>
    /\ seedFiles = {}
    /\ run = "running"

NextIngest ==
    \/ UseCachedSeed
    \/ CachedSeedUnreadable
    \/ IngestAct
    \/ IngestReport

SpecIngest == InitIngest /\ [][NextIngest]_vars

\* C4: a failure while handling one act never stops the run: the loop goes on
\* to every later act, and the run ends with every act counted as processed
\* and holding a written seed or a recorded failure.
C4_FailureNeverStopsRun ==
    /\ run # "aborted"
    /\ run = "done" =>
          /\ processed = acts
          /\ Len(results) = acts
          /\ \A k \in 1..acts : k \in seedFiles \/ results[k] = "ERROR"


-----------------------------------------------------------------------------
(* scripts/lib/fetcher.ts: rateLimit and fetchWithRateLimit                 *)
(* (specifications SpecFetch and FairSpecFetch).  Time is kept as clocks    *)
(* relative to now: sinceLastRequestTime is Date.now() - lastRequestTime,   *)
(* sinceRequest the time since the last network request was started, both   *)
(* capped at MIN_DELAY_MS; a timer is the time left of a setTimeout.        *)

\* one step of the clock
TimeStep == MIN_DELAY_MS \div 2

\* the statuses the host answers with
Statuses == {200, 404, 429, 500}
\* the attempt ended in an exception (fetch or response.text() rejected)
TransportError == -1

\* fetcher.ts:56, without 429
RetryableNo429(status) == status >= 500

\* fetcher.ts:56
Retryable(status) == status = 429 \/ status >= 500

\* fetcher.ts:58 and 74
Backoff(attempt) == (2 ^ (attempt + 1)) * 1000

\* a network request is started now (fetcher.ts:47); tooClose records that
\* the request before it was started less than MIN_DELAY_MS ago
StartRequest ==
    /\ tooClose' = (tooClose \/ (requestStarted /\ sinceRequest < MIN_DELAY_MS))
    /\ requestStarted' = TRUE
    /\ sinceRequest' = 0

\* fetcher.ts:42-47 with rateLimit, 22-29: the call runs rateLimit up to its
\* await; when no wait is due, lastRequestTime is set and the first request
\* is started
CallFetch(c, maxRetries) ==
    /\ pc = "fetch"
    /\ calls[c].pc = "idle"
    /\ IF sinceLastRequestTime < MIN_DELAY_MS
       THEN /\ calls' = [calls EXCEPT ![c] =
                   [@ EXCEPT !.pc = "rateLimitWait", !.maxRetries = maxRetries,
                             !.timer = MIN_DELAY_MS - sinceLastRequestTime]]
            /\ UNCHANGED <<sinceLastRequestTime, sinceRequest, requestStarted, tooClose>>
       ELSE /\ calls' = [calls EXCEPT ![c] =
                   [@ EXCEPT !.pc = "fetching", !.maxRetries = maxRetries,
                             !.requests = 1]]
            /\ sinceLastRequestTime' = 0
            /\ StartRequest
    /\ UNCHANGED <<pipelineVars, tableVars, ingestVars, resolveVars, toolVars, servedVars, extractVars, lateVars>>

\* fetcher.ts:26-28 and 45-47: the wait of rateLimit is over, lastRequestTime
\* is set and the first request is started
RateLimitWake(c) ==
    /\ calls[c].pc = "rateLimitWait"
    /\ calls[c].timer = 0
    /\ calls' = [calls EXCEPT ![c] = [@ EXCEPT !.pc = "fetching", !.requests = 1]]
    /\ sinceLastRequestTime' = 0
    /\ StartRequest
    /\ UNCHANGED <<pipelineVars, tableVars, ingestVars, resolveVars, toolVars, servedVars, extractVars, lateVars>>

\* fetcher.ts:71-80: the catch clause of an attempt
Caught(call) ==
    IF call.attempt < call.maxRetries
    THEN [call EXCEPT !.pc = "backoff", !.status = TransportError,
                      !.timer = Backoff(call.attempt)]
    ELSE [call EXCEPT !.pc = "threw", !.status = TransportError]

\* fetcher.ts:47-63: the host answers with a status
HostResponds(c, status) ==
    /\ calls[c].pc = "fetching"
    /\ LET call == calls[c]
       IN  calls' = [calls EXCEPT ![c] =
              IF Retryable(status) /\ call.attempt < call.maxRetries
              THEN [call EXCEPT !.pc = "backoff", !.status = status,
                                !.timer = Backoff(call.attempt)]
              ELSE [call EXCEPT !.pc = "readingBody", !.status = status]]
    /\ UNCHANGED <<sinceLastRequestTime, sinceRequest, requestStarted, tooClose>>
    /\ UNCHANGED <<pipelineVars, tableVars, ingestVars, resolveVars, toolVars, servedVars, extractVars, lateVars>>

\* fetcher.ts:47 and 71: fetch rejects
HostFails(c) ==
    /\ calls[c].pc = "fetching"
    /\ calls' = [calls EXCEPT ![c] = Caught(@)]
    /\ UNCHANGED <<sinceLastRequestTime, sinceRequest, requestStarted, tooClose>>
    /\ UNCHANGED <<pipelineVars, tableVars, ingestVars, resolveVars, toolVars, servedVars, extractVars, lateVars>>

\* fetcher.ts:64-70: the body has arrived, the result is returned
BodyRead(c) ==
    /\ calls[c].pc = "readingBody"
    /\ calls' = [calls EXCEPT ![c] = [@ EXCEPT !.pc = "returned"]]
    /\ UNCHANGED <<sinceLastRequestTime, sinceRequest, requestStarted, tooClose>>
    /\ UNCHANGED <<pipelineVars, tableVars, ingestVars, resolveVars, toolVars, servedVars, extractVars, lateVars>>

\* fetcher.ts:64 and 71: response.text() rejects
BodyFails(c) ==
    /\ calls[c].pc = "readingBody"
    /\ calls' = [calls EXCEPT ![c] = Caught(@)]
    /\ UNCHANGED <<sinceLastRequestTime, sinceRequest, requestStarted, tooClose>>
    /\ UNCHANGED <<pipelineVars, tableVars, ingestVars, resolveVars, toolVars, servedVars, extractVars, lateVars>>

\* fetcher.ts:60-61 and 76-77, then 45-47: the backoff is over, the loop
\* continues with the next attempt and starts its request
BackoffWake(c) ==
    /\ calls[c].pc = "backoff"
    /\ calls[c].timer = 0
    /\ calls' = [calls EXCEPT ![c] =
          [@ EXCEPT !.pc = "fetching", !.attempt = @ + 1, !.requests = @ + 1]]
    /\ StartRequest
    /\ UNCHANGED sinceLastRequestTime
    /\ UNCHANGED <<pipelineVars, tableVars, ingestVars, resolveVars, toolVars, servedVars, extractVars, lateVars>>

\* time passes
Tick ==
    /\ pc = "fetch"
    /\ calls' = [c \in CallNames |->
          [calls[c] EXCEPT !.timer = IF @ > TimeStep THEN @ - TimeStep ELSE 0]]
    /\ sinceLastRequestTime' = Min(MIN_DELAY_MS, sinceLastRequestTime + TimeStep)
    /\ sinceRequest' = Min(MIN_DELAY_MS, sinceRequest + TimeStep)
    /\ UNCHANGED <<requestStarted, tooClose>>
    /\ UNCHANGED <<pipelineVars, tableVars, ingestVars, resolveVars, toolVars, servedVars, extractVars, lateVars>>

\* fetcher.ts:20: lastRequestTime = 0 lies far in the past
InitFetch ==
    /\ pc = "fetch"
    /\ PipelineOff
    /\ TablesEmpty
    /\ IngestOff /\ ResolveOff /\ ToolsOff /\ FullDatabase /\ ExtractOff
    /\ LateOff
    /\ FetchOff

NextFetch ==
    \/ \E c \in CallNames, maxRetries \in 0..MaxRetriesArg : CallFetch(c, maxRetries)
    \/ \E c \in CallNames : RateLimitWake(c)
    \/ \E c \in CallNames, status \in Statuses : HostResponds(c, status)
    \/ \E c \in CallNames : HostFails(c)
    \/ \E c \in CallNames : BodyRead(c)
    \/ \E c \in CallNames : BodyFails(c)
    \/ \E c \in CallNames : BackoffWake(c)
    \/ Tick

SpecFetch == InitFetch /\ [][NextFetch]_vars

\* The program's own steps happen: timers run out and the continuations
\* waiting on them are run.  Nothing is assumed of the host.
FairSpecFetch ==
    /\ SpecFetch
    /\ WF_vars(Tick)
    /\ \A c \in CallNames : WF_vars(RateLimitWake(c)) /\ WF_vars(BackoffWake(c))

AttemptEnds(c) ==
    /\ calls[c].pc \in {"fetching", "readingBody"}
    /\ calls'[c].pc \in {"backoff", "returned", "threw"}

\* C6: an attempt is followed by another attempt exactly when it ended in
\* 429, in a status of 500 or more or in a transport error while fewer than
\* maxRetries retries have been made; otherwise the call ends with it: a
\* response is returned with its status, and an error is raised only when
\* attempt number maxRetries+1 has failed.
C6_RetriesExactlyWhenRetryable ==
    [][\A c \in CallNames :
        /\ AttemptEnds(c) =>
            /\ calls'[c].pc = "backoff" <=>
                  /\ \/ calls'[c].status = 429
                     \/ calls'[c].status >= 500
                     \/ calls'[c].status = TransportError
                  /\ calls[c].attempt < calls[c].maxRetries
            /\ calls'[c].pc = "returned" => calls'[c].status = calls[c].status
            /\ calls'[c].pc = "threw" =>
                  /\ calls'[c].status = TransportError
                  /\ calls[c].attempt = calls[c].maxRetries
        /\ (calls[c].pc = "backoff" /\ calls'[c].pc # "backoff") =>
            /\ calls'[c].pc = "fetching"
            /\ calls'[c].attempt = calls[c].attempt + 1
    ]_vars

\* a call has retried and then raised the error of its last attempt, and
\* another has returned a retryable status it had no retry left for
C6_Witness ==
    /\ \E c \in CallNames :
          calls[c].pc = "threw" /\ calls[c].attempt >= 1
    /\ \E c \in CallNames :
          calls[c].pc = "returned" /\ calls[c].status = 500

\* C7: any two network requests of the process, retries and concurrent calls
\* included, are started at least MIN_DELAY_MS apart.
C7_RequestsSpacedApart == ~tooClose

\* C8: every call of fetchWithRateLimit eventually completes, by returning
\* or raising, whatever the host does, and issues at most maxRetries+1
\* requests.
C8_EveryCallCompletes ==
    /\ [](\A c \in CallNames : calls[c].requests <= calls[c].maxRetries + 1)
    /\ \A c \in CallNames :
          (calls[c].pc # "idle") ~> (calls[c].pc \in {"returned", "threw"})


-----------------------------------------------------------------------------
(* src/utils/statute-id.ts: resolveDocumentId (specification SpecResolve).  *)
(* A string is a sequence of characters; legal_documents is the sequence of *)
(* its rows in table order, the order in which SQLite scans them.           *)

\* a NULL column and the null result
NullText == <<"NULL">>

\* String.prototype.trim (statute-id.ts:23)
RECURSIVE trimStart(_)
trimStart(str) ==
    IF str # <<>> /\ Head(str) = " " THEN trimStart(Tail(str)) ELSE str

RECURSIVE trimEnd(_)
trimEnd(str) ==
    IF str # <<>> /\ str[Len(str)] = " "
    THEN trimEnd(SubSeq(str, 1, Len(str) - 1))
    ELSE str

trim(str) == trimEnd(trimStart(str))

\* SQLite folds the ASCII letters, in LIKE and in LOWER
Fold(ch) ==
    CASE ch = "A" -> "a" [] ch = "B" -> "b" [] ch = "C" -> "c"
      [] ch = "D" -> "d" [] ch = "E" -> "e" [] ch = "F" -> "f"
      [] OTHER -> ch

\* SQLite's LOWER (statute-id.ts:40)
LOWER(str) == [k \in 1..Len(str) |-> Fold(str[k])]

\* SQLite's LIKE without ESCAPE: % stands for any run of characters, _ for any
\* one character, ASCII letters match in either case
RECURSIVE Like(_, _)
Like(str, pattern) ==
    IF pattern = <<>> THEN str = <<>>
    ELSE IF Head(pattern) = "%"
    THEN Like(str, Tail(pattern)) \/ (str # <<>> /\ Like(Tail(str), pattern))
    ELSE IF str = <<>> THEN FALSE
    ELSE IF Head(pattern) = "_" THEN Like(Tail(str), Tail(pattern))
    ELSE Fold(Head(str)) = Fold(Head(pattern)) /\ Like(Tail(str), Tail(pattern))

\* column LIKE ?  is not true for a NULL column
ColumnLike(column, pattern) == column # NullText /\ Like(column, pattern)

\* statute-id.ts:35 and 41: `%${trimmed}%`
LikePattern(trimmed) == <<"%">> \o trimmed \o <<"%">>

\* the id of the first row, in table order, among the rows that satisfy the
\* WHERE clause (LIMIT 1), or no row
FirstRow(docs, hits) ==
    IF hits = {} THEN NullText
    ELSE docs[CHOOSE k \in hits : \A j \in hits : k <= j].id

\* statute-id.ts:27-30, answering for no id
NoDirectMatch(docs, trimmed) == NullText

\* statute-id.ts:27-30
DirectMatch(docs, trimmed) ==
    FirstRow(docs, {k \in 1..Len(docs) : docs[k].id = trimmed})

\* statute-id.ts:33-36
TitleResult(docs, trimmed) ==
    FirstRow(docs, {k \in 1..Len(docs) :
        \/ ColumnLike(docs[k].title, LikePattern(trimmed))
        \/ ColumnLike(docs[k].short_name, LikePattern(trimmed))
        \/ ColumnLike(docs[k].title_en, LikePattern(trimmed))})

\* LOWER(column) LIKE LOWER(?)
LowerLike(column, pattern) ==
    column # NullText /\ Like(LOWER(column), LOWER(pattern))

\* statute-id.ts:39-42
LowerResult(docs, trimmed) ==
    FirstRow(docs, {k \in 1..Len(docs) :
        \/ LowerLike(docs[k].title, LikePattern(trimmed))
        \/ LowerLike(docs[k].short_name, LikePattern(trimmed))
        \/ LowerLike(docs[k].title_en, LikePattern(trimmed))})

\* statute-id.ts:19-45
resolveDocumentId(docs, in) ==
    LET trimmed == trim(in)
    IN  IF trimmed = <<>> THEN NullText
        ELSE IF DirectMatch(docs, trimmed) # NullText THEN DirectMatch(docs, trimmed)
        ELSE IF TitleResult(docs, trimmed) # NullText THEN TitleResult(docs, trimmed)
        ELSE IF LowerResult(docs, trimmed) # NullText THEN LowerResult(docs, trimmed)
        ELSE NullText

\* build-db.ts:72-85: id is the primary key, title is NOT NULL, title_en and
\* short_name may be NULL
DocumentIds == {<<"a">>, <<"b">>, <<"c">>}
DocumentTitles == {<<"A">>, <<"x", "a">>, <<"b", " ", "c">>}
ShortNames == {NullText, <<"a">>}
EnglishTitles == {NullText, <<"b">>}

Documents ==
    [id : DocumentIds, title : DocumentTitles, short_name : ShortNames,
     title_en : EnglishTitles]

Corpora ==
    {docs \in UNION {[1..n -> Documents] : n \in 0..MaxDocs} :
        \A j, k \in 1..Len(docs) : docs[j].id = docs[k].id => j = k}

Inputs ==
    {<<"a">>, <<" ", "a", " ">>, <<"A">>, <<"b">>, <<"c">>, <<" ">>, <<"_">>, <<"%">>}

\* one call of resolveDocumentId(db, input)
ResolveDocumentId ==
    /\ resolved.state = "called"
    /\ resolved' = [state |-> "returned", id |-> resolveDocumentId(legal_documents, input)]
    /\ UNCHANGED <<legal_documents, input>>
    /\ UNCHANGED <<pipelineVars, tableVars, ingestVars, fetchVars, toolVars, servedVars, extractVars, lateVars>>

InitResolve ==
    /\ pc = "resolve"
    /\ PipelineOff
    /\ TablesEmpty
    /\ IngestOff /\ FetchOff /\ ToolsOff /\ FullDatabase /\ ExtractOff
    /\ LateOff
    /\ legal_documents \in Corpora
    /\ input \in Inputs
    /\ resolved = [state |-> "called", id |-> <<>>]

NextResolve == ResolveDocumentId

SpecResolve == InitResolve /\ [][NextResolve]_vars

StoredIds == {legal_documents[k].id : k \in 1..Len(legal_documents)}

\* String.prototype.includes
Includes(str, part) ==
    \E k \in 1..(Len(str) + 1) :
        /\ k + Len(part) - 1 <= Len(str)
        /\ SubSeq(str, k, k + Len(part) - 1) = part

\* C9: when the trimmed input equals the id of a stored document,
\* resolveDocumentId returns exactly that id, also when the same text is part
\* of the title, short name or English title of other documents.
C9_ExactIdTakesPrecedence ==
    (resolved.state = "returned" /\ trim(input) \in StoredIds)
        => resolved.id = trim(input)

\* the id was asked for, and a document stored before the one with that id
\* carries the same text in its title or short name
C9_Witness ==
    /\ resolved.state = "returned"
    /\ Len(legal_documents) >= 2
    /\ trim(input) = legal_documents[2].id
    /\ \/ Includes(legal_documents[1].title, trim(input))
       \/ Includes(legal_documents[1].short_name, trim(input))
    /\ resolved.id = legal_documents[2].id

\* C10: when the input is not a document id and is contained in the title of
\* exactly one stored document, resolveDocumentId returns the id of that
\* document, whatever the short names and secondary-language titles of the
\* other documents are.
C10_UniqueTitleMatchReturned ==
    LET titled == {k \in 1..Len(legal_documents) :
                      Includes(legal_documents[k].title, input)}
    IN  (/\ resolved.state = "returned"
         /\ input \notin StoredIds
         /\ Cardinality(titled) = 1)
            => \A k \in titled : resolved.id = legal_documents[k].id


-----------------------------------------------------------------------------
(* src/tools: the tools called on the served database (specification        *)
(* SpecTools).  A text is a sequence of characters; a word that the code    *)
(* never looks into is written as one character, and Vietnamese letters     *)
(* are written without their marks.  The database is read-only while it is  *)
(* served: the tables are chosen by Init and every action answers one call. *)

\* parser.ts:366-377 and 378-389: two of KEY_VIETNAMESE_ACTS, as the seed
\* writes them (parser.ts:225-231, ingest.ts:72-78)
Constitution2013 ==
    [ id |-> <<"constitution-2013">>,
      title |-> <<"Hien phap", " ", "2013">>,
      title_en |-> <<"Constitution", " ", "of the Socialist Republic of Vietnam",
                     " ", "2013">>,
      short_name |-> <<"Hien phap", " ", "2013">> ]
PenalCode2015 ==
    [ id |-> <<"penal-code-2015">>,
      title |-> <<"Bo luat Hinh su", " ", "2015">>,
      title_en |-> <<"Penal Code", " ", "2015">>,
      short_name |-> <<"BLHS", " ", "2015">> ]

\* build-db.ts:78-79: CHECK(status IN (...)), the statuses the tools look at
DocumentStatuses == {"in_force", "amended", "repealed"}

WithStatus(doc, status) ==
    [ id |-> doc.id, title |-> doc.title, title_en |-> doc.title_en,
      short_name |-> doc.short_name, status |-> status ]

ServedDocuments ==
    {WithStatus(doc, status) : doc \in {Constitution2013, PenalCode2015},
                               status \in DocumentStatuses}

\* legal_documents of a served database: rows in table order, ids distinct
ServedCorpora ==
    {docs \in UNION {[1..n -> ServedDocuments] : n \in 0..2} :
        \A j, k \in 1..Len(docs) : docs[j].id = docs[k].id => j = k}

\* parser.ts:189-199: provision_ref is "dieu" + number, section the number
ServedProvision(id, document_id, num, content) ==
    [ id |-> id, document_id |-> document_id, provision_ref |-> <<"dieu">> \o num,
      chapter |-> <<"Chuong II">>, section |-> num,
      title |-> <<"title of dieu">> \o num, content |-> content ]

\* the contents are the words ab, cd, abcd and ef
ServedProvisionPool ==
    { ServedProvision(1, Constitution2013.id, <<"2">>, <<"a", "b", " ", "c", "d">>),
      ServedProvision(2, Constitution2013.id, <<"2", "1">>, <<"C", "d", " ", "a", "b">>),
      ServedProvision(3, PenalCode2015.id, <<"2">>, <<"a", "b", "c", "d", " ", "e", "f">>),
      ServedProvision(4, PenalCode2015.id, <<"2", "1">>, <<"e", "f">>) }

\* legal_provisions of a served database with these documents
\* (build-db.ts:90: document_id REFERENCES legal_documents)
ServedProvisions(docs) ==
    SUBSET {row \in ServedProvisionPool :
               \E k \in 1..Len(docs) : docs[k].id = row.document_id}

IsDigit(ch) == ch \in {"0", "1", "2", "3", "4", "5", "6", "7", "8", "9"}

\* the first position from p on that holds no blank (\s*)
RECURSIVE SkipSpaces(_, _)
SkipSpaces(str, p) ==
    IF p <= Len(str) /\ str[p] = " " THEN SkipSpaces(str, p + 1) ELSE p

\* the first position from p on that holds no digit (\d+)
RECURSIVE SkipDigits(_, _)
SkipDigits(str, p) ==
    IF p <= Len(str) /\ IsDigit(str[p]) THEN SkipDigits(str, p + 1) ELSE p

\* the position where the digits that end at p begin
RECURSIVE DigitsBack(_, _)
DigitsBack(str, p) ==
    IF p >= 1 /\ IsDigit(str[p]) THEN DigitsBack(str, p - 1) ELSE p + 1

NoCitation == [matched |-> FALSE, documentRef |-> <<>>, sectionRef |-> <<>>]

\* validate-citation.ts:37-42: /^Section\s+(\d+...)\s*[,;]?\s+(.+)$/i
SectionFirst(str) ==
    LET a == SkipSpaces(str, 2)
        b == SkipDigits(str, a)
        c == SkipSpaces(str, b)
        comma == c <= Len(str) /\ str[c] \in {",", ";"}
        e == IF comma THEN SkipSpaces(str, c + 1) ELSE c
        \* where (.+) begins: after the blanks that follow the separator, or,
        \* when none follows it, at the separator itself
        rest == IF comma /\ e = c + 1 THEN c ELSE e
    IN  IF /\ Len(str) >= 1
           /\ str[1] \in {"Section", "section"}
           /\ a > 2
           /\ b > a
           /\ rest <= Len(str)
           /\ IF comma /\ e > c + 1 THEN TRUE ELSE c > b
        THEN [matched |-> TRUE, documentRef |-> trim(SubSeq(str, rest, Len(str))),
              sectionRef |-> SubSeq(str, a, b - 1)]
        ELSE NoCitation

\* the lazy (.+?) before \s*[,;]?\s+ : the text without the blanks and the
\* one separator that end it
BeforeSeparator(str) ==
    LET cut == trimEnd(str)
        bare == IF cut # <<>> /\ cut[Len(cut)] \in {",", ";"}
                THEN SubSeq(cut, 1, Len(cut) - 1) ELSE cut
    IN  IF bare = <<>> THEN cut ELSE bare

\* validate-citation.ts:45-50 and 53-58:
\* /^(.+?)\s*[,;]?\s+s\.?\s+(\d+...)$/i and the same with Section for s\.?
SectionLast(str, words, dot) ==
    LET n == Len(str)
        p == DigitsBack(str, n)
        q == LET back[k \in 0..n] ==
                     IF k >= 1 /\ str[k] = " " THEN back[k - 1] ELSE k
                 IN  back[p - 1]
        w == IF dot /\ q >= 1 /\ str[q] = "." THEN q - 1 ELSE q
    IN  IF /\ p <= n
           /\ q < p - 1
           /\ w >= 3
           /\ str[w] \in words
           /\ str[w - 1] = " "
           /\ BeforeSeparator(SubSeq(str, 1, w - 1)) # <<>>
        THEN [matched |-> TRUE,
              documentRef |-> trim(BeforeSeparator(SubSeq(str, 1, w - 1))),
              sectionRef |-> SubSeq(str, p, n)]
        ELSE NoCitation

\* validate-citation.ts:33-62
parseCitation(citation) ==
    LET trimmed == trim(citation)
    IN  IF SectionFirst(trimmed).matched THEN SectionFirst(trimmed)
        ELSE IF SectionLast(trimmed, {"s", "S"}, TRUE).matched
        THEN SectionLast(trimmed, {"s", "S"}, TRUE)
        ELSE IF SectionLast(trimmed, {"Section", "section"}, FALSE).matched
        THEN SectionLast(trimmed, {"Section", "section"}, FALSE)
        ELSE [matched |-> TRUE, documentRef |-> trimmed, sectionRef |-> <<>>]


\* the row of legal_documents with this id (validate-citation.ts:94-96)
DocumentById(docs, id) == docs[CHOOSE k \in 1..Len(docs) : docs[k].id = id]

\* validate-citation.ts:98-102, pushing nothing
NoStatusWarnings(status) == <<>>

\* validate-citation.ts:98-102
StatusWarnings(status) ==
    IF status = "repealed" THEN <<"WARNING: This statute has been repealed.">>
    ELSE IF status = "amended"
    THEN <<"Note: This statute has been amended. Verify you are referencing the current version.">>
    ELSE <<>>

\* validate-citation.ts:105-107: the rows the WHERE clause selects
CitedProvisions(rows, docId, sectionRef) ==
    {row \in rows :
        /\ row.document_id = docId
        /\ \/ row.provision_ref = sectionRef
           \/ row.provision_ref = <<"s">> \o sectionRef
           \/ row.section = sectionRef}

CitationResult(valid, document_id, provision_ref, status, warnings) ==
    [ tool |-> "validate_citation", valid |-> valid, document_id |-> document_id,
      provision_ref |-> provision_ref, status |-> status, warnings |-> warnings ]

\* validate-citation.ts:64-149: the results the call can give; .get() returns
\* one of the selected rows, the statement has no ORDER BY
validateCitationTool(docs, rows, citation) ==
    LET parsed == parseCitation(citation)
        docId == resolveDocumentId(docs, parsed.documentRef)
        doc == DocumentById(docs, docId)
        warnings == StatusWarnings(doc.status)
        found == CitedProvisions(rows, docId, parsed.sectionRef)
    IN  IF docId = NullText
        THEN {CitationResult(FALSE, NullText, NullText, "none",
                             <<"Document not found">>)}
        ELSE IF parsed.sectionRef # <<>>
        THEN IF found = {}
             THEN {CitationResult(FALSE, docId, NullText, "none",
                                  Append(warnings, "Provision not found"))}
             ELSE {CitationResult(TRUE, docId, row.provision_ref, doc.status, warnings) :
                      row \in found}
        ELSE {CitationResult(TRUE, docId, NullText, doc.status, warnings)}

\* the document parts and section numbers of the citations asked about
CitedDocuments ==
    { <<"Constitution", " ", "2013">>, <<"Hien phap", " ", "2013">>,
      <<"constitution-2013">>, <<"Penal Code">>, <<"Civil Code">> }
CitedSections == { <<"2", "1">>, <<"2">>, <<"9">> }

Citations ==
    {<<"Section", " ">> \o num \o <<",", " ">> \o doc :
        num \in CitedSections, doc \in CitedDocuments}
    \cup {<<"Section", " ">> \o num \o <<" ">> \o doc :
        num \in CitedSections, doc \in CitedDocuments}
    \cup {doc \o <<" ", "s", " ">> \o num :
        num \in CitedSections, doc \in CitedDocuments}
    \cup {doc \o <<",", " ", "Section", " ">> \o num :
        num \in CitedSections, doc \in CitedDocuments}
    \cup CitedDocuments

\* one call of validate_citation; the database is not changed by a call, so
\* a behaviour follows one call
ValidateCitation ==
    /\ pc = "serve"
    /\ request = NoRequest
    /\ \E citation \in Citations :
          /\ request' = [tool |-> "validate_citation", citation |-> citation]
          /\ response' \in validateCitationTool(legal_documents, legal_provisions, citation)
    /\ UNCHANGED <<pipelineVars, tableVars, ingestVars, fetchVars, resolveVars, servedVars, extractVars, lateVars>>


HasDocument(doc) ==
    \E k \in 1..Len(legal_documents) : legal_documents[k].id = doc.id

HasProvision(document_id, provision_ref) ==
    \E row \in legal_provisions :
        row.document_id = document_id /\ row.provision_ref = provision_ref

\* C11: "Section 21, Constitution 2013", asked of a corpus that holds
\* constitution-2013 with the provision dieu21, validates to that document and
\* that provision; and a citation "Section N, <Title>" whose title part is
\* the title of a stored document D that has dieuN validates to D and dieuN.
C11_SectionCitationValidates ==
    /\ (/\ request.tool = "validate_citation"
        /\ request.citation =
              <<"Section", " ", "2", "1", ",", " ", "Constitution", " ", "2013">>
        /\ HasDocument(Constitution2013)
        /\ HasProvision(Constitution2013.id, <<"dieu", "2", "1">>))
          => /\ response.valid
             /\ response.document_id = Constitution2013.id
             /\ response.provision_ref = <<"dieu", "2", "1">>
    /\ \A k \in 1..Len(legal_documents), num \in CitedSections :
          (/\ request.tool = "validate_citation"
           /\ request.citation =
                 <<"Section", " ">> \o num \o <<",", " ">> \o legal_documents[k].title
           /\ HasProvision(legal_documents[k].id, <<"dieu">> \o num))
            => /\ response.valid
               /\ response.document_id = legal_documents[k].id
               /\ response.provision_ref = <<"dieu">> \o num


\* the document the call resolved, and whether what it cites was found
CitedDocumentFound == response.document_id # NullText
CitedProvisionFound ==
    LET sectionRef == parseCitation(request.citation).sectionRef
    IN  sectionRef # <<>> =>
            CitedProvisions(legal_provisions, response.document_id, sectionRef) # {}

Mentions(warnings, words) ==
    \E k \in 1..Len(warnings) : warnings[k] \in words

\* C12: when the cited document resolves and the cited provision, if any,
\* exists, validate_citation answers valid = true; the warnings mention the
\* repeal of a repealed document and the amendment of an amended one.
C12_StatusWarningKeepsValid ==
    (/\ request.tool = "validate_citation"
     /\ CitedDocumentFound
     /\ CitedProvisionFound)
        => LET status == DocumentById(legal_documents, response.document_id).status
           IN  /\ response.valid
               /\ status = "repealed" =>
                     Mentions(response.warnings,
                              {"WARNING: This statute has been repealed."})
               /\ status = "amended" =>
                     Mentions(response.warnings,
                              {"Note: This statute has been amended. Verify you are referencing the current version."})

\* a citation of an existing provision of a repealed document was validated
C12_Witness ==
    /\ request.tool = "validate_citation"
    /\ response.valid
    /\ response.provision_ref # NullText
    /\ response.status = "repealed"
    /\ response.warnings # <<>>


-----------------------------------------------------------------------------
(* src/tools/get-provision.ts                                               *)

\* get-provision.ts:91 and 121: String(provision_ref).replace(/^s/, '')
SectionNumber(provision_ref) ==
    IF provision_ref # <<>> /\ Head(provision_ref) = "s"
    THEN Tail(provision_ref) ELSE provision_ref

\* get-provision.ts:83-93 and 113-123
ProvisionResult(doc, row) ==
    [ document_id |-> doc.id, document_title |-> doc.title,
      provision_ref |-> row.provision_ref, chapter |-> row.chapter,
      section |-> row.section, title |-> row.title, content |-> row.content,
      section_number |-> SectionNumber(row.provision_ref) ]

RowsOf(rows, docId) == {row \in rows : row.document_id = docId}

\* get-provision.ts:55-79: the rows of the first of the four statements that
\* selects any: provision_ref = ref, provision_ref = "s" + ref, section = ref,
\* provision_ref LIKE %ref% OR section LIKE %ref%
NamedProvisions(rows, docId, refTrimmed) ==
    LET own == RowsOf(rows, docId)
        direct == {row \in own : row.provision_ref = refTrimmed}
        prefixed == {row \in own : row.provision_ref = <<"s">> \o refTrimmed}
        bySection == {row \in own : row.section = refTrimmed}
        like == {row \in own :
                    \/ Like(row.provision_ref, LikePattern(refTrimmed))
                    \/ Like(row.section, LikePattern(refTrimmed))}
    IN  IF direct # {} THEN direct
        ELSE IF prefixed # {} THEN prefixed
        ELSE IF bySection # {} THEN bySection
        ELSE like

\* the rows in the order of their id (ORDER BY id)
RECURSIVE OrderById(_)
OrderById(rows) ==
    IF rows = {} THEN <<>>
    ELSE LET first == CHOOSE row \in rows : \A other \in rows : row.id <= other.id
         IN  <<first>> \o OrderById(rows \ {first})

ProvisionResponse(list, note) ==
    [tool |-> "get_provision", results |-> list, note |-> note]

\* get-provision.ts:28-126: the responses the call can give; ref is
\* input.provision_ref ?? input.section, empty when neither is given
getProvision(docs, rows, document_id, ref) ==
    LET resolvedId == resolveDocumentId(docs, document_id)
        docRow == DocumentById(docs, resolvedId)
        found == NamedProvisions(rows, resolvedId, trim(ref))
    IN  IF resolvedId = NullText
        THEN {ProvisionResponse(<<>>, "No document found matching")}
        ELSE IF ref # <<>>
        THEN IF found # {}
             THEN {ProvisionResponse(<<ProvisionResult(docRow, row)>>, "none") :
                      row \in found}
             ELSE {ProvisionResponse(<<>>, "Provision not found in document")}
        ELSE LET all == OrderById(RowsOf(rows, resolvedId))
             IN  {ProvisionResponse([k \in 1..Len(all) |-> ProvisionResult(docRow, all[k])],
                                    "none")}

\* the documents and provisions asked for
RequestedDocuments ==
    {Constitution2013.id, PenalCode2015.id, <<"Penal Code">>, <<"Civil Code">>}
RequestedProvisions ==
    { <<>>, <<"2", "1">>, <<"2">>, <<"9">>, <<"dieu", "2">>, <<" ", "2", " ">> }

\* one call of get_provision
GetProvision ==
    /\ pc = "serve"
    /\ request = NoRequest
    /\ \E document_id \in RequestedDocuments, ref \in RequestedProvisions :
          /\ request' = [tool |-> "get_provision", document_id |-> document_id,
                         ref |-> ref]
          /\ response' \in getProvision(legal_documents, legal_provisions,
                                        document_id, ref)
    /\ UNCHANGED <<pipelineVars, tableVars, ingestVars, fetchVars, resolveVars, servedVars, extractVars, lateVars>>


-----------------------------------------------------------------------------
(* src/utils/fts-query.ts and src/tools/build-legal-stance.ts               *)

\* fts-query.ts:13: the characters replaced by a blank
FtsSpecial == {"'", "\"", "(", ")", "{", "}", "[", "]", "^", "~", "*", ":"}

\* runs of blanks become one blank (fts-query.ts:14)
RECURSIVE SqueezeBlanks(_)
SqueezeBlanks(str) ==
    IF Len(str) < 2 THEN str
    ELSE IF str[1] = " " /\ str[2] = " " THEN SqueezeBlanks(Tail(str))
    ELSE <<Head(str)>> \o SqueezeBlanks(Tail(str))

\* fts-query.ts:11-16
sanitizeFtsInput(str) ==
    trim(SqueezeBlanks([k \in 1..Len(str) |->
                           IF str[k] \in FtsSpecial THEN " " ELSE str[k]]))

\* the pieces of a text between the characters of a set, empty pieces left out
\* (split(/\s+/).filter(t => t.length > 0); the unicode61 tokenizer)
RECURSIVE SplitAt(_, _, _)
SplitAt(str, separators, piece) ==
    IF str = <<>> THEN (IF piece = <<>> THEN <<>> ELSE <<piece>>)
    ELSE IF Head(str) \in separators
    THEN (IF piece = <<>> THEN <<>> ELSE <<piece>>) \o SplitAt(Tail(str), separators, <<>>)
    ELSE SplitAt(Tail(str), separators, Append(piece, Head(str)))

\* fts-query.ts:25-52: the variants, first to last; "phrase" is the terms in
\* double quotes, "and" the terms joined by AND, "prefix" the same with * after
\* the last term
buildFtsQueryVariants(sanitized) ==
    LET terms == SplitAt(sanitized, {" "}, <<>>)
        exact == IF Len(terms) > 1 THEN <<[kind |-> "phrase", terms |-> terms]>>
                 ELSE <<>>
        all == <<[kind |-> "and", terms |-> terms]>>
        prefix == IF (Len(terms) = 1 /\ Len(terms[1]) >= 3) \/ Len(terms) > 1
                  THEN <<[kind |-> "prefix", terms |-> terms]>>
                  ELSE <<>>
    IN  IF terms = <<>> THEN <<>> ELSE exact \o all \o prefix

\* what separates the tokens of unicode61 among the characters used here
TokenSeparators == FtsSpecial \cup {" ", "-", ","}

\* build-db.ts:108: tokenize='unicode61' splits the text and folds the case
Tokens(text) ==
    LET pieces == SplitAt(text, TokenSeparators, <<>>)
    IN  [k \in 1..Len(pieces) |-> LOWER(pieces[k])]

\* an FTS5 query string parses only when every term outside quotes is a
\* bareword and none is one of the operators
IsBareword(term) ==
    /\ \A k \in 1..Len(term) : term[k] \notin TokenSeparators
    /\ term \notin {<<"A", "N", "D">>, <<"O", "R">>, <<"N", "O", "T">>}

IsPrefixOf(term, token) ==
    Len(term) <= Len(token) /\ SubSeq(token, 1, Len(term)) = term

\* the tokens hold the phrase: its tokens one after the other
HoldsPhrase(tokens, phrase) ==
    \E k \in 1..(Len(tokens) + 1) :
        /\ k + Len(phrase) - 1 <= Len(tokens)
        /\ SubSeq(tokens, k, k + Len(phrase) - 1) = phrase

\* the terms joined by one blank (terms.join(' '))
RECURSIVE JoinTerms(_)
JoinTerms(terms) ==
    IF terms = <<>> THEN <<>>
    ELSE IF Len(terms) = 1 THEN terms[1]
    ELSE terms[1] \o <<" ">> \o JoinTerms(Tail(terms))

\* preparing the statement with this variant raises an FTS5 syntax error
VariantThrows(variant) ==
    variant.kind # "phrase" /\ \E k \in 1..Len(variant.terms) : ~IsBareword(variant.terms[k])

\* provisions_fts MATCH ? for one index entry: a phrase lies in one column, the
\* terms of an AND query may lie in different columns
EntryMatches(entry, variant) ==
    LET content == Tokens(entry.a)
        title == Tokens(entry.b)
        has(term) == \/ \E k \in 1..Len(content) : content[k] = LOWER(term)
                     \/ \E k \in 1..Len(title) : title[k] = LOWER(term)
        begins(term) == \/ \E k \in 1..Len(content) : IsPrefixOf(LOWER(term), content[k])
                        \/ \E k \in 1..Len(title) : IsPrefixOf(LOWER(term), title[k])
        n == Len(variant.terms)
        phrase == Tokens(JoinTerms(variant.terms))
    IN  IF variant.kind = "phrase"
        THEN phrase # <<>> /\ (HoldsPhrase(content, phrase) \/ HoldsPhrase(title, phrase))
        ELSE IF variant.kind = "and"
        THEN \A k \in 1..n : has(variant.terms[k])
        ELSE /\ \A k \in 1..(n - 1) : has(variant.terms[k])
             /\ begins(variant.terms[n])

\* build-legal-stance.ts:37-62: the rows the statement selects for a variant,
\* before ORDER BY and LIMIT; a statement that throws selects nothing (66-68)
StanceRows(docs, rows, fts, variant, document_id) ==
    IF VariantThrows(variant) THEN {}
    ELSE {row \in rows :
            /\ \E entry \in BagToSet(fts) :
                  entry.rowid = row.id /\ EntryMatches(entry, variant)
            /\ \E k \in 1..Len(docs) : docs[k].id = row.document_id
            /\ document_id # <<>> => row.document_id = document_id}

\* build-legal-stance.ts:36-69, looking from the last variant to the first
RECURSIVE LastHit(_, _, _, _, _)
LastHit(docs, rows, fts, variants, document_id) ==
    IF variants = <<>> THEN {}
    ELSE LET n == Len(variants)
             hit == StanceRows(docs, rows, fts, variants[n], document_id)
         IN  IF hit # {} THEN hit
             ELSE LastHit(docs, rows, fts, SubSeq(variants, 1, n - 1), document_id)

\* build-legal-stance.ts:36-69: the rows of the first variant that selects any
RECURSIVE FirstHit(_, _, _, _, _)
FirstHit(docs, rows, fts, variants, document_id) ==
    IF variants = <<>> THEN {}
    ELSE LET hit == StanceRows(docs, rows, fts, Head(variants), document_id)
         IN  IF hit # {} THEN hit
             ELSE FirstHit(docs, rows, fts, Tail(variants), document_id)

\* build-legal-stance.ts:33; limit is <<n>>, or <<>> when none is given
StanceLimit(limit) ==
    LET given == IF limit = <<>> THEN 5 ELSE limit[1]
        atLeast == IF given < 1 THEN 1 ELSE given
    IN  IF atLeast > 20 THEN 20 ELSE atLeast

\* build-legal-stance.ts:39-45, without snippet and relevance
StanceResult(docs, row) ==
    [ document_id |-> row.document_id,
      document_title |-> DocumentById(docs, row.document_id).title,
      provision_ref |-> row.provision_ref, section |-> row.section,
      title |-> row.title ]

StanceResponse(list) ==
    [tool |-> "build_legal_stance", results |-> list, note |-> "none"]

\* build-legal-stance.ts:25-72: the responses the call can give; the rows are
\* the best by bm25 up to the limit, here any of the selected rows, as a set
buildLegalStance(docs, rows, fts, query, document_id, limit) ==
    IF trim(query) = <<>> THEN {StanceResponse({})}
    ELSE LET variants == buildFtsQueryVariants(sanitizeFtsInput(query))
             hit == FirstHit(docs, rows, fts, variants, document_id)
             most == StanceLimit(limit)
         IN  {StanceResponse({StanceResult(docs, row) : row \in kept}) :
                 kept \in {some \in SUBSET hit :
                              Cardinality(some) = Min(most, Cardinality(hit))}}

\* the searches asked for
Queries ==
    { <<"a", "b", " ", "c", "d">>, <<"c", "d", " ", "a", "b">>,
      <<"a", "b", " ", "c">>, <<"a", "b">>, <<"a", "b", "c">>, <<"e">>,
      <<"a", "b", "-", "c", "d">>, <<"a", "b", "-", "c", "d", " ", "e", "f">>,
      <<"\"", "A", "B", "\"", " ", " ", "c", "d", "*">>,
      <<"a", "b", " ", "O", "R", " ", "z">>, <<"z", "z">>, <<" ">>, <<"*">> }
StanceDocuments == {<<>>, Constitution2013.id}
StanceLimits == {<<>>, <<0>>, <<1>>}

\* one call of build_legal_stance
BuildLegalStance ==
    /\ pc = "serve"
    /\ request = NoRequest
    /\ \E query \in Queries, document_id \in StanceDocuments, limit \in StanceLimits :
          /\ request' = [tool |-> "build_legal_stance", query |-> query,
                         document_id |-> document_id, limit |-> limit]
          /\ response' \in buildLegalStance(legal_documents, legal_provisions,
                                            provisions_fts, query, document_id, limit)
    /\ UNCHANGED <<pipelineVars, tableVars, ingestVars, fetchVars, resolveVars, servedVars, extractVars, lateVars>>

-----------------------------------------------------------------------------
(* the served database and the calls made on it *)

\* a database built by build-db.ts is opened and served
InitTools ==
    /\ pc = "serve"
    /\ PipelineOff
    /\ IngestOff /\ FetchOff
    /\ legal_documents \in ServedCorpora
    /\ legal_provisions \in ServedProvisions(legal_documents)
    /\ provisions_fts = SetToBag({ProvisionEntry(row) : row \in legal_provisions})
    /\ definitions = {}
    /\ definitions_fts = EmptyBag
    /\ lastStatement = "none"
    /\ input = <<>>
    /\ resolved = [state |-> "off", id |-> <<>>]
    /\ ToolsOff
    /\ FullDatabase
    /\ ExtractOff
    /\ LateOff

NextTools ==
    \/ ValidateCitation
    \/ GetProvision
    \/ BuildLegalStance

SpecTools == InitTools /\ [][NextTools]_vars

\* C13: get_provision finds a provision for a token exactly when
\* validate_citation finds one for it in the same document, and the same one:
\* the token matches by provision_ref, by "s" + token, or by the section
\* label, and by nothing else.
C13_SameMatchingAsValidation ==
    (/\ request.tool = "get_provision"
     /\ request.ref # <<>>
     /\ request.document_id \in StoredIds)
        => LET cited == CitedProvisions(legal_provisions, request.document_id,
                                        request.ref)
           IN  /\ response.results # <<>> <=> cited # {}
               /\ response.results # <<>> =>
                     \E row \in cited :
                         response.results[1].provision_ref = row.provision_ref

\* the rank of a variant on the ladder
Rung(kind) == IF kind = "phrase" THEN 1 ELSE IF kind = "and" THEN 2 ELSE 3

\* C14: the variants come in the order exact phrase, all terms (AND), prefix
\* on the last term; build_legal_stance returns rows of the first variant that
\* has any, never rows of a later one, and returns none only when no variant
\* has any.
C14_FallbackLadderInOrder ==
    request.tool = "build_legal_stance" =>
        LET variants == buildFtsQueryVariants(sanitizeFtsInput(request.query))
            rowsOf(k) == {StanceResult(legal_documents, row) :
                            row \in StanceRows(legal_documents, legal_provisions,
                                               provisions_fts, variants[k],
                                               request.document_id)}
        IN  /\ \A j, k \in 1..Len(variants) :
                  j < k => Rung(variants[j].kind) < Rung(variants[k].kind)
            /\ response.results # {} =>
                  \E k \in 1..Len(variants) :
                      /\ response.results \subseteq rowsOf(k)
                      /\ \A j \in 1..(k - 1) : rowsOf(j) = {}
            /\ response.results = {} =>
                  \A k \in 1..Len(variants) : rowsOf(k) = {}

\* the phrase found nothing, the AND query did, and its rows were returned
C14_Witness ==
    /\ request.tool = "build_legal_stance"
    /\ request.query = <<"c", "d", " ", "a", "b">>
    /\ response.results # {}
    /\ \A row \in legal_provisions : row.id # 2
    /\ \E row \in legal_provisions : row.id = 1

-----------------------------------------------------------------------------
(* src/tools: the EU tools and the CallTool handler (specification          *)
(* SpecRegistry).  The served database may lack eu_documents or             *)
(* eu_references, and the handle may have been closed (index.ts:87-92).     *)

\* an argument the caller left out
Undefined == <<"undefined">>

\* how a tool function ends: it returns a ToolResponse or it throws
Returns(list, note) == [threw |-> FALSE, results |-> list, note |-> note]
Throws(message) == [threw |-> TRUE, message |-> message]

\* db.prepare(sql) succeeds when the handle is open and every table the
\* statement names exists
CanPrepare(named) == connection = "open" /\ named \subseteq tables

\* the message of the error db.prepare(sql) raises
PrepareError(named) ==
    IF connection # "open" THEN "The database connection is not open"
    ELSE IF "eu_references" \in named /\ "eu_references" \notin tables
         THEN "no such table: eu_references"
    ELSE "no such table: eu_documents"

\* build-db.ts:179-198
Regulation2016_679 ==
    [ id |-> <<"regulation:2016/679">>, type |-> "regulation", year |-> 2016,
      number |-> 679, title |-> <<"GDPR">>, short_name |-> NullText ]
Directive95_46 ==
    [ id |-> <<"directive:1995/46">>, type |-> "directive", year |-> 1995,
      number |-> 46, title |-> NullText, short_name |-> <<"DPD">> ]
EuDocumentPool == {Regulation2016_679, Directive95_46}

\* build-db.ts:203-222, rows as loadAll writes them (build-db.ts:415-428)
EuReference(id, provision, eu_document_id, eu_article, reference_type, primary) ==
    [ id |-> id,
      source_id |-> provision.document_id \o <<":">> \o provision.provision_ref,
      document_id |-> provision.document_id,
      provision_id |-> provision.id, eu_document_id |-> eu_document_id,
      eu_article |-> eu_article, reference_type |-> reference_type,
      is_primary_implementation |-> primary,
      implementation_status |-> IF primary = 1 THEN <<"complete">> ELSE <<"unknown">> ]

ProvisionWithId(id) == CHOOSE row \in ServedProvisionPool : row.id = id

EuReferencePool ==
    { EuReference(1, ProvisionWithId(1), Regulation2016_679.id, <<"5">>, "implements", 1),
      EuReference(2, ProvisionWithId(1), Directive95_46.id, NullText, "references", 0),
      EuReference(3, ProvisionWithId(3), Regulation2016_679.id, NullText, "references", 0) }

\* COALESCE(ed.title, ed.short_name)
COALESCE(a, b) == IF a # NullText THEN a ELSE b

\* the eu_documents row a LEFT JOIN ... ON ed.id = er.eu_document_id adds,
\* all NULL when there is none
JoinedEuDocument(ref) ==
    IF \E ed \in eu_documents : ed.id = ref.eu_document_id
    THEN CHOOSE ed \in eu_documents : ed.id = ref.eu_document_id
    ELSE [ id |-> NullText, type |-> "NULL", year |-> 0, number |-> 0,
           title |-> NullText, short_name |-> NullText ]

\* validate-eu-compliance.ts:178-209: one row per (eu_document_id,
\* reference_type) of the references of the document.  The rows are given as
\* a set; MAX(er.implementation_status) is the last in text order.
EUBasisRows(resolvedId, in) ==
    LET refs == {er \in eu_references :
                    /\ er.document_id = resolvedId
                    /\ \/ in.reference_types = {}
                       \/ er.reference_type \in in.reference_types}
        group(er) == {other \in refs :
                        /\ other.eu_document_id = er.eu_document_id
                        /\ other.reference_type = er.reference_type}
        articles(er) == {other.eu_article : other \in
                            {o \in eu_references :
                                /\ o.document_id = resolvedId
                                /\ o.eu_document_id = er.eu_document_id
                                /\ o.eu_article # NullText}}
    IN  { [ eu_document_id |-> er.eu_document_id,
            eu_document_type |-> JoinedEuDocument(er).type,
            eu_document_title |-> COALESCE(JoinedEuDocument(er).title,
                                           JoinedEuDocument(er).short_name),
            reference_type |-> er.reference_type,
            reference_count |-> Cardinality(group(er)),
            implementation_status |->
                IF \E other \in group(er) : other.implementation_status = <<"unknown">>
                THEN <<"unknown">> ELSE <<"complete">>,
            articles |-> IF in.include_articles THEN articles(er) ELSE {} ]
          : er \in refs }

NoteReferences == "EU references not available in this database tier"
NoteDocuments == "EU documents not available in this database tier"

\* validate-eu-compliance.ts:156-212
getEUBasis(in) ==
    IF in.document_id = Undefined
    THEN Throws("Cannot read properties of undefined (reading 'trim')")
    ELSE IF trim(in.document_id) # <<>> /\ ~CanPrepare({})
    THEN Throws(PrepareError({}))
    ELSE LET resolvedId == resolveDocumentId(legal_documents, in.document_id)
         IN  IF resolvedId = NullText THEN Returns({}, "none")
             ELSE IF ~CanPrepare({"eu_references"}) THEN Returns({}, NoteReferences)
             ELSE IF ~CanPrepare({"eu_references", "eu_documents"})
             THEN Throws(PrepareError({"eu_references", "eu_documents"}))
             ELSE Returns(EUBasisRows(resolvedId, in), "none")

\* registry.ts:462-475
ProvisionEUBasisRows(provision) ==
    { [ eu_document_id |-> er.eu_document_id,
        eu_document_type |-> JoinedEuDocument(er).type,
        eu_document_title |-> COALESCE(JoinedEuDocument(er).title,
                                       JoinedEuDocument(er).short_name),
        eu_article |-> er.eu_article,
        reference_type |-> er.reference_type ]
      : er \in {r \in eu_references : r.provision_id = provision.id} }

\* registry.ts:431-478; the provision is the one .get() picks among the rows
\* the WHERE clause selects, so the operator gives every possible outcome
getProvisionEUBasis(in) ==
    IF in.document_id = Undefined
    THEN {Throws("Cannot read properties of undefined (reading 'trim')")}
    ELSE IF trim(in.document_id) # <<>> /\ ~CanPrepare({})
    THEN {Throws(PrepareError({}))}
    ELSE LET resolvedId == resolveDocumentId(legal_documents, in.document_id)
         IN  IF resolvedId = NullText THEN {Returns({}, "none")}
             ELSE IF ~CanPrepare({"eu_references"}) THEN {Returns({}, NoteReferences)}
             ELSE IF in.provision_ref = Undefined
             THEN {Throws("Cannot read properties of undefined (reading 'trim')")}
             ELSE LET found == CitedProvisions(legal_provisions, resolvedId,
                                               trim(in.provision_ref))
                  IN  IF found = {} THEN {Returns({}, "none")}
                      ELSE IF ~CanPrepare({"eu_references", "eu_documents"})
                      THEN {Throws(PrepareError({"eu_references", "eu_documents"}))}
                      ELSE {Returns(ProvisionEUBasisRows(provision), "none")
                               : provision \in found}

\* get-vietnamese-implementations.ts:39-66: one row per (document,
\* reference_type) of the references to the EU document
VietnameseImplementationRows(in) ==
    LET refs == {er \in eu_references :
                    /\ er.eu_document_id = in.eu_document_id
                    /\ er.document_id \in StoredIds
                    /\ in.primary_only => er.is_primary_implementation = 1
                    /\ in.in_force_only =>
                         DocumentById(legal_documents, er.document_id).status = "in_force"}
        group(er) == {other \in refs :
                        /\ other.document_id = er.document_id
                        /\ other.reference_type = er.reference_type}
    IN  { [ document_id |-> er.document_id,
            document_title |-> DocumentById(legal_documents, er.document_id).title,
            status |-> DocumentById(legal_documents, er.document_id).status,
            reference_type |-> er.reference_type,
            is_primary |-> CHOOSE p \in {o.is_primary_implementation : o \in group(er)} :
                              \A o \in group(er) : o.is_primary_implementation <= p,
            reference_count |-> Cardinality(group(er)) ]
          : er \in refs }

\* get-vietnamese-implementations.ts:24-67
getVietnameseImplementations(in) ==
    IF ~CanPrepare({"eu_references"}) THEN Returns({}, NoteReferences)
    ELSE Returns(VietnameseImplementationRows(in), "none")

\* check-currency.ts:117-161, called without limit: at most 20 rows, more
\* than eu_documents holds here
EUImplementationRows(in) ==
    LET count(ed) == Cardinality({er.document_id : er \in
                        {r \in eu_references : r.eu_document_id = ed.id}})
    IN  { [ eu_document_id |-> ed.id, type |-> ed.type, year |-> ed.year,
            number |-> ed.number, title |-> ed.title, short_name |-> ed.short_name,
            vietnamese_statute_count |-> count(ed) ]
          : ed \in {e \in eu_documents :
                       /\ in.query # <<>> =>
                            \/ ColumnLike(e.title, LikePattern(in.query))
                            \/ ColumnLike(e.short_name, LikePattern(in.query))
                       /\ in.type # "none" => e.type = in.type
                       /\ in.has_vietnamese_implementation => count(e) > 0} }

\* check-currency.ts:99-163
searchEUImplementations(in) ==
    IF ~CanPrepare({"eu_documents"}) THEN Returns({}, NoteDocuments)
    ELSE IF ~CanPrepare({"eu_documents", "eu_references"})
    THEN Throws(PrepareError({"eu_documents", "eu_references"}))
    ELSE Returns(EUImplementationRows(in), "none")

\* get-provision.ts:28-126 on the handle of the server: resolveDocumentId
\* reads input.document_id and prepares its first statement
getProvisionOutcomes(in) ==
    IF in.document_id = Undefined
    THEN {Throws("Cannot read properties of undefined (reading 'trim')")}
    ELSE IF trim(in.document_id) # <<>> /\ ~CanPrepare({})
    THEN {Throws(PrepareError({}))}
    ELSE {Returns(found.results, found.note) :
             found \in getProvision(legal_documents, legal_provisions,
                                    in.document_id, in.provision_ref)}

\* the handler without its catch clause: the error leaves the handler
CallToolResultUncaught(outcome) ==
    IF outcome.threw
    THEN [escaped |-> outcome.message]
    ELSE [isError |-> FALSE, results |-> outcome.results, note |-> outcome.note]

\* registry.ts:393-396 and 398-404: what the handler returns for the way
\* the tool function ended
CallToolResult(outcome) ==
    IF outcome.threw
    THEN [isError |-> TRUE, text |-> <<"Error: ", outcome.message>>]
    ELSE [isError |-> FALSE, results |-> outcome.results, note |-> outcome.note]

\* registry.ts:388-392
UnknownToolResult ==
    [isError |-> TRUE, text |-> <<"Error: Unknown tool">>]

\* the arguments the calls are made with
BasisDocuments == {Constitution2013.id, PenalCode2015.id, <<"Civil Code">>, Undefined}
BasisProvisions == {<<"2">>, <<" ", "2", "1">>, <<"9">>, Undefined}
ReferenceTypeFilters == {{}, {"implements"}}
EuDocumentIds == {Regulation2016_679.id, Directive95_46.id, <<"directive:2002/58">>}
EuQueries == {<<>>, <<"GDPR">>, <<"D">>, <<"xyz">>}
EuTypes == {"none", "directive"}
UnknownTools == {"get_definitions", ""}

\* registry.ts:358-360
CallGetEUBasis ==
    /\ pc = "serve"
    /\ request = NoRequest
    /\ \E document_id \in BasisDocuments, reference_types \in ReferenceTypeFilters,
          include_articles \in BOOLEAN :
          LET args == [document_id |-> document_id,
                       reference_types |-> reference_types,
                       include_articles |-> include_articles]
          IN  /\ request' = [tool |-> "get_eu_basis", args |-> args]
              /\ response' = CallToolResult(getEUBasis(args))
    /\ UNCHANGED <<pipelineVars, tableVars, ingestVars, fetchVars, resolveVars, servedVars, extractVars, lateVars>>

\* registry.ts:367-369
CallGetProvisionEUBasis ==
    /\ pc = "serve"
    /\ request = NoRequest
    /\ \E document_id \in BasisDocuments, provision_ref \in BasisProvisions :
          LET args == [document_id |-> document_id, provision_ref |-> provision_ref]
          IN  /\ request' = [tool |-> "get_provision_eu_basis", args |-> args]
              /\ response' \in {CallToolResult(outcome) :
                                    outcome \in getProvisionEUBasis(args)}
    /\ UNCHANGED <<pipelineVars, tableVars, ingestVars, fetchVars, resolveVars, servedVars, extractVars, lateVars>>

\* registry.ts:361-363
CallGetVietnameseImplementations ==
    /\ pc = "serve"
    /\ request = NoRequest
    /\ \E eu_document_id \in EuDocumentIds, primary_only \in BOOLEAN,
          in_force_only \in BOOLEAN :
          LET args == [eu_document_id |-> eu_document_id,
                       primary_only |-> primary_only,
                       in_force_only |-> in_force_only]
          IN  /\ request' = [tool |-> "get_vietnamese_implementations", args |-> args]
              /\ response' = CallToolResult(getVietnameseImplementations(args))
    /\ UNCHANGED <<pipelineVars, tableVars, ingestVars, fetchVars, resolveVars, servedVars, extractVars, lateVars>>

\* registry.ts:364-366
CallSearchEUImplementations ==
    /\ pc = "serve"
    /\ request = NoRequest
    /\ \E query \in EuQueries, type \in EuTypes,
          has_vietnamese_implementation \in BOOLEAN :
          LET args == [query |-> query, type |-> type,
                       has_vietnamese_implementation |-> has_vietnamese_implementation]
          IN  /\ request' = [tool |-> "search_eu_implementations", args |-> args]
              /\ response' = CallToolResult(searchEUImplementations(args))
    /\ UNCHANGED <<pipelineVars, tableVars, ingestVars, fetchVars, resolveVars, servedVars, extractVars, lateVars>>

\* a version of the get_provision case that keeps the last query in db_metadata
CallGetProvisionLogged ==
    /\ pc = "serve"
    /\ request = NoRequest
    /\ \E document_id \in BasisDocuments, provision_ref \in {<<>>, <<"2">>, <<"9">>} :
          LET args == [document_id |-> document_id, provision_ref |-> provision_ref]
          IN  /\ request' = [tool |-> "get_provision", args |-> args]
              /\ response' \in {CallToolResult(outcome) :
                                    outcome \in getProvisionOutcomes(args)}
              /\ db_metadata' = Append(db_metadata, [key |-> "last_query"])
    /\ UNCHANGED <<pipelineVars, tableVars, ingestVars, fetchVars, resolveVars, servedVars, extractVars>>
    /\ UNCHANGED <<seedDir, fileIndex, primaryImplementationByDocument, definitionVars,
                   sessionVars>>

\* registry.ts:343-345
CallGetProvision ==
    /\ pc = "serve"
    /\ request = NoRequest
    /\ \E document_id \in BasisDocuments, provision_ref \in {<<>>, <<"2">>, <<"9">>} :
          LET args == [document_id |-> document_id, provision_ref |-> provision_ref]
          IN  /\ request' = [tool |-> "get_provision", args |-> args]
              /\ response' \in {CallToolResult(outcome) :
                                    outcome \in getProvisionOutcomes(args)}
    /\ UNCHANGED <<pipelineVars, tableVars, ingestVars, fetchVars, resolveVars, servedVars, extractVars, lateVars>>

\* registry.ts:388-392: a name the switch has no case for
CallUnknownTool ==
    /\ pc = "serve"
    /\ request = NoRequest
    /\ \E name \in UnknownTools :
          /\ request' = [tool |-> name, args |-> Undefined]
          /\ response' = UnknownToolResult
    /\ UNCHANGED <<pipelineVars, tableVars, ingestVars, fetchVars, resolveVars, servedVars, extractVars, lateVars>>

\* http-server.ts:255-262: every transport of the map is closed, the map is
\* cleared and the handle is closed while the server still answers the calls
\* in flight; httpServer.close() lets no further request in
shutdown ==
    /\ pc = "serve"
    /\ request = NoRequest
    /\ connection = "open"
    /\ transports' = [id \in SessionIds |->
                          IF id \in sessions THEN "closed" ELSE transports[id]]
    /\ sessions' = {}
    /\ connection' = "closed"
    /\ listening' = FALSE
    /\ UNCHANGED <<posts, issued, followUp>>
    /\ UNCHANGED <<tables, eu_documents, eu_references>>
    /\ UNCHANGED <<pipelineVars, tableVars, ingestVars, fetchVars, resolveVars, toolVars,
                   extractVars, loadVars, definitionVars>>

\* a database is opened and served: the two statutes and their provisions,
\* and the EU tables of its tier
InitRegistry ==
    /\ pc = "serve"
    /\ PipelineOff
    /\ IngestOff /\ FetchOff
    /\ legal_documents = << WithStatus(Constitution2013, "in_force"),
                            WithStatus(PenalCode2015, "amended") >>
    /\ legal_provisions = ServedProvisionPool
    /\ provisions_fts = SetToBag({ProvisionEntry(row) : row \in legal_provisions})
    /\ definitions = {}
    /\ definitions_fts = EmptyBag
    /\ lastStatement = "none"
    /\ input = <<>>
    /\ resolved = [state |-> "off", id |-> <<>>]
    /\ ToolsOff
    /\ ExtractOff
    /\ LateOff
    /\ connection = "open"
    /\ tables \in SUBSET OptionalTables
    /\ eu_documents \in IF "eu_documents" \in tables THEN SUBSET EuDocumentPool ELSE {{}}
    /\ eu_references \in IF "eu_references" \in tables THEN SUBSET EuReferencePool ELSE {{}}

NextRegistry ==
    \/ CallGetEUBasis
    \/ CallGetProvisionEUBasis
    \/ CallGetVietnameseImplementations
    \/ CallSearchEUImplementations
    \/ CallGetProvision
    \/ CallUnknownTool
    \/ shutdown

SpecRegistry == InitRegistry /\ [][NextRegistry]_vars

\* the tools whose tables are optional
EuTools ==
    {"get_eu_basis", "get_provision_eu_basis", "get_vietnamese_implementations",
     "search_eu_implementations"}

\* every argument the tool reads was given
ArgumentsGiven ==
    \A name \in DOMAIN request.args \cap {"document_id", "provision_ref"} :
        request.args[name] # Undefined

\* C15: a call of get_eu_basis, get_provision_eu_basis,
\* get_vietnamese_implementations or search_eu_implementations, made with
\* its arguments on an open database that lacks eu_documents, eu_references
\* or both, returns an empty result with a note, and no error result.
C15_DegradesGracefully ==
    (/\ request.tool \in EuTools
     /\ ArgumentsGiven
     /\ connection = "open"
     /\ tables # OptionalTables)
        => /\ ~response.isError
           /\ response.results = {}
           /\ response.note # "none"

\* the call named a document that resolves to none, or a provision that the
\* resolved document does not have
NothingFound ==
    LET resolvedId == resolveDocumentId(legal_documents, request.args.document_id)
    IN  \/ resolvedId = NullText
        \/ /\ request.tool = "get_provision"
           /\ request.args.provision_ref # <<>>
           /\ NamedProvisions(legal_provisions, resolvedId,
                              trim(request.args.provision_ref)) = {}
        \/ /\ request.tool = "get_provision_eu_basis"
           /\ CitedProvisions(legal_provisions, resolvedId,
                              trim(request.args.provision_ref)) = {}

\* results = []
NoResults ==
    IF request.tool = "get_provision" THEN response.results = <<>>
    ELSE response.results = {}

\* C16: a call of get_provision, get_eu_basis or get_provision_eu_basis on a
\* database with all its tables, whose document or provision matches nothing
\* in the corpus, returns results = [] together with a note in its metadata,
\* and no error.
C16_NothingFoundGivesNote ==
    (/\ request.tool \in {"get_provision", "get_eu_basis", "get_provision_eu_basis"}
     /\ ArgumentsGiven
     /\ connection = "open"
     /\ tables = OptionalTables
     /\ NothingFound)
        => /\ ~response.isError
           /\ NoResults
           /\ response.note # "none"

\* C17: the CallTool handler answers every call with a result, either the
\* content of the tool or a result with isError = true, whatever the tool
\* name, the arguments and the failure inside the tool (a missing table, a
\* closed database, an argument left out); an unknown tool name is answered
\* with isError = true.
C17_NoExceptionEscapes ==
    request # NoRequest =>
        /\ \/ DOMAIN response = {"isError", "results", "note"} /\ ~response.isError
           \/ DOMAIN response = {"isError", "text"} /\ response.isError
        /\ request.tool \in UnknownTools => response.isError

\* a tool was called on the closed database, or with an argument left out, or
\* on a database without eu_documents, and the statement it prepared failed
C17_Witness ==
    /\ request.tool \in EuTools
    /\ \/ connection = "closed"
       \/ ~ArgumentsGiven
       \/ "eu_documents" \notin tables
    /\ response.isError

-----------------------------------------------------------------------------
(* Round trip (specification SpecRoundTrip): a hand-written seed is built   *)
(* into the database and its provisions are read back with get_provision.   *)

\* get-provision.ts:107-125: get_provision for the document of the seed,
\* with neither provision_ref nor section
GetAllProvisions ==
    /\ pc = "built"
    /\ request = NoRequest
    /\ request' = [tool |-> "get_provision", document_id |-> DocumentId, ref |-> <<>>]
    /\ response' \in getProvision(legal_documents, legal_provisions, DocumentId, <<>>)
    /\ UNCHANGED <<pipelineVars, tableVars, ingestVars, fetchVars, resolveVars, servedVars, extractVars, lateVars>>

NextRoundTrip ==
    \/ BuildDatabase
    \/ GetAllProvisions

SpecRoundTrip == InitSeed /\ [][NextRoundTrip]_vars

\* the distinct members of a sequence, in the order of their first occurrence
RECURSIVE FirstOccurrences(_)
FirstOccurrences(refs) ==
    IF refs = <<>> THEN <<>>
    ELSE LET before == FirstOccurrences(SubSeq(refs, 1, Len(refs) - 1))
             last == refs[Len(refs)]
         IN  IF \E k \in 1..Len(before) : before[k] = last THEN before
             ELSE Append(before, last)

\* the record carries the content, title, chapter and section of the seed
\* provision; a chapter the seed leaves out is read back as null
SameFields(record, prov) ==
    /\ record.content = prov.content
    /\ record.title = prov.title
    /\ record.chapter = (IF prov.chapter = NoChapter THEN "NULL" ELSE prov.chapter.name)
    /\ record.section = prov.section

ReadBack == pc = "built" /\ request.tool = "get_provision"

\* the seed provision that stands for a trimmed reference: the first, in seed
\* order, of those with the longest whitespace-normalized content
KeptFor(ref) ==
    LET same == {k \in 1..Len(seed) : TrimRef(seed[k].provision_ref) = ref}
        length(k) == TextLength(normalizeWhitespace(seed[k].content))
        longest == {k \in same : \A j \in same : length(j) <= length(k)}
    IN  seed[CHOOSE k \in longest : \A j \in longest : k <= j]

\* C18 as stated: after the build, get_provision with the document id and no
\* provision returns one record per distinct provision_ref of the seed, in
\* seed order, each with the content, title, chapter and section of a seed
\* provision of that reference.
C18_RoundTripAsWritten ==
    ReadBack =>
        LET want == FirstOccurrences([k \in 1..Len(seed) |-> seed[k].provision_ref])
            got == response.results
        IN  /\ Len(got) = Len(want)
            /\ \A k \in 1..Len(want) :
                  /\ got[k].provision_ref = TrimRef(want[k])
                  /\ \E j \in 1..Len(seed) :
                        /\ seed[j].provision_ref = want[k]
                        /\ SameFields(got[k], seed[j])

\* C18: after the build, get_provision with the document id and no provision
\* returns one record per distinct trimmed provision_ref of the seed, in the
\* order in which these references first occur, each with the content, title,
\* chapter and section of the first seed provision of that reference that
\* has the longest whitespace-normalized content.
C18_RoundTrip ==
    ReadBack =>
        LET want == FirstOccurrences([k \in 1..Len(seed) |->
                                         TrimRef(seed[k].provision_ref)])
            got == response.results
        IN  /\ Len(got) = Len(want)
            /\ response.note = "none"
            /\ \A k \in 1..Len(want) :
                  /\ got[k].provision_ref = want[k]
                  /\ SameFields(got[k], KeptFor(want[k]))

\* a seed was read back in which a later provision of a reference has the
\* longer content and another reference follows
C18_Witness ==
    /\ ReadBack
    /\ Len(response.results) = 2
    /\ Len(seed) = 3
    /\ TrimRef(seed[1].provision_ref) = TrimRef(seed[3].provision_ref)
    /\ seed[2].provision_ref # seed[1].provision_ref
    /\ LongerNormalized(seed[3], seed[1])
    /\ response.results[1].content = seed[3].content

-----------------------------------------------------------------------------
(* scripts/build-db.ts: extractEuReferences (specification SpecExtract).    *)
(* A text is a sequence of characters in which a word is written as one     *)
(* character; Width gives the number of characters the word has.            *)

\* build-db.ts:279-280: the characters kept on each side of a citation
ContextWidth == 120

\* (Regulation|Directive) under the flag i, as the texts write them
EuTypeWords == {"Regulation", "regulation", "Directive", "DIRECTIVE"}
\* (EU|EC|EEC|Euratom)
EuCommunities == {"EU", "EC", "EEC", "Euratom"}
\* a word of 120 letters
Far == "Far"
\* a word of 109 letters
Near == "Near"

Width(ch) ==
    CASE ch \in {"Regulation", "regulation", "implements", "equivalent"} -> 10
      [] ch \in {"Directive", "DIRECTIVE", "implement", "Implement"} -> 9
      [] ch \in {"Euratom", "Article", "aligned", "applies"} -> 7
      [] ch = "transpos" -> 8
      [] ch = "transposition" -> 13
      [] ch = "align" -> 5
      [] ch = "EEC" -> 3
      [] ch \in {"EU", "EC", "No"} -> 2
      [] ch = Far -> ContextWidth
      [] ch = Near -> ContextWidth - 11
      [] OTHER -> 1

\* String.prototype.toLowerCase on a word
toLowerCase(ch) ==
    CASE ch \in {"Regulation", "regulation"} -> "regulation"
      [] ch \in {"Directive", "DIRECTIVE"} -> "directive"
      [] ch \in {"implement", "Implement"} -> "implement"
      [] OTHER -> ch

\* \w: letters and digits; a word and a piece cut off a word are made of them
IsWordChar(ch) == ch \notin {" ", "(", ")", "/", ".", ",", ""}

\* the character at position p, nothing past the end
CharAt(str, p) == IF p \in 1..Len(str) THEN str[p] ELSE ""

\* \b at the gap before position p
Boundary(str, p) == IsWordChar(CharAt(str, p - 1)) # IsWordChar(CharAt(str, p))

DigitValue(ch) == CHOOSE n \in 0..9 : <<"0", "1", "2", "3", "4", "5", "6", "7", "8", "9">>[n + 1] = ch

\* Number.parseInt(digits, 10)
RECURSIVE parseInt(_)
parseInt(digits) ==
    IF digits = <<>> THEN 0
    ELSE 10 * parseInt(SubSeq(digits, 1, Len(digits) - 1)) + DigitValue(digits[Len(digits)])

\* a number as the template literal writes it
RECURSIVE NumberText(_)
NumberText(n) ==
    LET last == <<"0", "1", "2", "3", "4", "5", "6", "7", "8", "9">>[(n % 10) + 1]
    IN  IF n < 10 THEN <<last>> ELSE NumberText(n \div 10) \o <<last>>

\* a rule that reads every two-digit year as 20yy
yearOf2000(rawYear) ==
    IF Len(rawYear) = 2 THEN 2000 + parseInt(rawYear) ELSE parseInt(rawYear)

\* build-db.ts:271-272
yearOf(rawYear) ==
    IF Len(rawYear) = 2
    THEN (IF parseInt(rawYear) >= 50 THEN 1900 + parseInt(rawYear)
          ELSE 2000 + parseInt(rawYear))
    ELSE parseInt(rawYear)

NoMatch == [matched |-> FALSE]

\* (?:No\.?\s*)? from position a on: where the year has to begin
AfterNo(str, a) ==
    IF CharAt(str, a) \in {"No", "no"}
    THEN SkipSpaces(str, IF CharAt(str, a + 1) = "." THEN a + 2 ELSE a + 1)
    ELSE a

\* (\d{2,4})\/(\d{1,4}) from position c on
YearAndNumber(str, c) ==
    LET slash == SkipDigits(str, c)
        after == SkipDigits(str, slash + 1)
    IN  IF /\ slash - c \in 2..4
           /\ CharAt(str, slash) = "/"
           /\ after - (slash + 1) \in 1..4
        THEN [matched |-> TRUE, rawYear |-> SubSeq(str, c, slash - 1),
              rawNumber |-> SubSeq(str, slash + 1, after - 1), after |-> after]
        ELSE NoMatch

EuMatch(str, p, yn, community, after) ==
    [ matched |-> TRUE, index |-> p, after |-> after, type |-> toLowerCase(str[p]),
      rawYear |-> yn.rawYear, rawNumber |-> yn.rawNumber, community |-> community ]

\* build-db.ts:257-259: the match of pattern k (0, 1, 2) that begins at p
MatchAt(str, k, p) ==
    LET a == SkipSpaces(str, p + 1)
        named == /\ CharAt(str, a) = "("
                 /\ CharAt(str, a + 1) \in EuCommunities
                 /\ CharAt(str, a + 2) = ")"
        c == AfterNo(str, IF k = 0 THEN SkipSpaces(str, a + 3) ELSE a)
        yn == YearAndNumber(str, c)
    IN  IF ~(CharAt(str, p) \in EuTypeWords /\ Boundary(str, p)) THEN NoMatch
        ELSE IF k = 0
        THEN IF named /\ yn.matched /\ Boundary(str, yn.after)
             THEN EuMatch(str, p, yn, str[a + 1], yn.after)
             ELSE NoMatch
        ELSE IF k = 1
        THEN IF /\ yn.matched
                /\ CharAt(str, yn.after) = "/"
                /\ CharAt(str, yn.after + 1) \in EuCommunities
                /\ Boundary(str, yn.after + 2)
             THEN EuMatch(str, p, yn, str[yn.after + 1], yn.after + 2)
             ELSE NoMatch
        ELSE IF yn.matched /\ Boundary(str, yn.after)
             THEN EuMatch(str, p, yn, "EU", yn.after)
             ELSE NoMatch

\* build-db.ts:262-263: the matches pattern.exec finds from position p on
RECURSIVE MatchesFrom(_, _, _)
MatchesFrom(str, k, p) ==
    IF p > Len(str) THEN <<>>
    ELSE IF MatchAt(str, k, p).matched
    THEN <<MatchAt(str, k, p)>> \o MatchesFrom(str, k, MatchAt(str, k, p).after)
    ELSE MatchesFrom(str, k, p + 1)

\* the number of characters before position p
RECURSIVE Offset(_, _)
Offset(str, p) == IF p <= 1 THEN 0 ELSE Offset(str, p - 1) + Width(str[p - 1])

\* text.slice(start, end), in characters: a word that the cut goes through
\* leaves a piece, which is no word of the text
RECURSIVE Slice(_, _, _, _)
Slice(str, p, start, end) ==
    IF p > Len(str) THEN <<>>
    ELSE LET from == Offset(str, p)
             to == from + Width(str[p])
         IN  (IF to <= start \/ from >= end THEN <<>>
              ELSE IF from >= start /\ to <= end THEN <<str[p]>>
              ELSE <<"piece">>)
             \o Slice(str, p + 1, start, end)

\* build-db.ts:279-281
referenceContext(str, match) ==
    LET index == Offset(str, match.index)
        length == Offset(str, match.after) - index
        start == IF index - ContextWidth > 0 THEN index - ContextWidth ELSE 0
        end == Min(Offset(str, Len(str) + 1), index + length + ContextWidth)
    IN  trim(SqueezeBlanks(Slice(str, 1, start, end)))

\* build-db.ts:282: /\bArticle\s+(\d+[A-Za-z]?(?:\(\d+\))?)/i, in a context
\* whose numbers carry no letter
euArticle(context) ==
    LET hits == {j \in 1..Len(context) :
                    /\ context[j] \in {"Article", "article"}
                    /\ Boundary(context, j)
                    /\ CharAt(context, j + 1) = " "
                    /\ IsDigit(CharAt(context, j + 2))}
        j == CHOOSE h \in hits : \A other \in hits : h <= other
        d == SkipDigits(context, j + 2)
        e == SkipDigits(context, d + 1)
        sub == CharAt(context, d) = "(" /\ e > d + 1 /\ CharAt(context, e) = ")"
    IN  IF hits = {} THEN <<"NULL">>
        ELSE SubSeq(context, j + 2, IF sub THEN e ELSE d - 1)

\* build-db.ts:283: /\b(implement|align|transpos|equivalent)\b/i
referenceType(context) ==
    IF \E j \in 1..Len(context) :
          /\ toLowerCase(context[j]) \in {"implement", "align", "transpos", "equivalent"}
          /\ Boundary(context, j)
          /\ Boundary(context, j + 1)
    THEN "implements" ELSE "references"

\* build-db.ts:264-294: the reference made of one match
ExtractedReference(str, match) ==
    LET year == yearOf(match.rawYear)
        number == parseInt(match.rawNumber)
        context == referenceContext(str, match)
    IN  [ type |-> match.type, community |-> match.community,
          year |-> year, number |-> number,
          euDocumentId |-> <<match.type, ":">> \o NumberText(year)
                              \o <<"/">> \o NumberText(number),
          euArticle |-> euArticle(context),
          fullCitation |-> SubSeq(str, match.index, match.after - 1),
          referenceContext |-> context,
          referenceType |-> referenceType(context) ]

\* a scan that keeps every match whose year and number are positive
RECURSIVE CollectAll(_, _, _)
CollectAll(str, matches, found) ==
    IF matches = <<>> THEN found
    ELSE LET ref == ExtractedReference(str, Head(matches))
         IN  CollectAll(str, Tail(matches),
                        IF ref.year <= 0 \/ ref.number <= 0
                        THEN found ELSE Append(found, ref))

\* build-db.ts:274 and 285-287: a match is passed over when its year or
\* number is 0, or when its document and article have been seen
RECURSIVE Collect(_, _, _)
Collect(str, matches, found) ==
    IF matches = <<>> THEN found
    ELSE LET ref == ExtractedReference(str, Head(matches))
             seen == {<<found[k].euDocumentId, found[k].euArticle>> : k \in 1..Len(found)}
         IN  Collect(str, Tail(matches),
                     IF \/ ref.year <= 0
                        \/ ref.number <= 0
                        \/ <<ref.euDocumentId, ref.euArticle>> \in seen
                     THEN found ELSE Append(found, ref))

\* build-db.ts:250-302
extractEuReferences(str) ==
    IF trim(str) = <<>> THEN <<>>
    ELSE Collect(str, MatchesFrom(str, 0, 1) \o MatchesFrom(str, 1, 1)
                        \o MatchesFrom(str, 2, 1), <<>>)

\* the citations, and what stands before and after them
EuCitations ==
    { <<"Regulation", " ", "(", "EU", ")", " ", "No", " ", "2", "0", "1", "6", "/", "6", "7", "9">>,
      <<"Directive", " ", "9", "5", "/", "4", "6", "/", "EC">>,
      <<"regulation", " ", "2", "0", "1", "6", "/", "6", "7", "9">>,
      <<"DIRECTIVE", " ", "No", ".", " ", "0", "2", "/", "5", "8">>,
      <<"Directive", " ", "0", "0", "9", "5", "/", "0", "4", "6">>,
      <<"Regulation", " ", "5", "0", "/", "0">>,
      <<"Directive", " ", "2", "0", "1", "6", "/", "1", "2", "3", "4", "5">>,
      <<"Regulation", " ", "(", "EC", ")", " ", "No", " ", "4", "5", "/", "2", "0", "0", "1">> }
Preambles ==
    { <<>>, <<"implements", " ">>, <<"Implement", " ">>, <<"aligned", " ">>,
      <<"transpos", " ", " ">>, <<"implement", " ", Far, " ">>,
      <<"Article", " ", "5", " ">> }
Sequels ==
    { <<>>, <<" ", "Article", " ", "6", "(", "1", ")">>, <<" ", "equivalent">>,
      <<" ", Far, " ", "align">>,
      <<" ", Near, " ", "Article", " ", "6">>,
      <<",", " ", "Directive", " ", "9", "5", "/", "4", "6", "/", "EC">> }
EuTexts ==
    {before \o citation \o after :
        before \in Preambles, citation \in EuCitations, after \in Sequels}

\* one call of extractEuReferences(prov.content) (build-db.ts:399)
ExtractEuReferences ==
    /\ pc = "extract"
    /\ extracted' = extractEuReferences(provisionText)
    /\ pc' = "extracted"
    /\ UNCHANGED provisionText
    /\ UNCHANGED <<source, articleStarts, chapterPositions, i, currentChapter,
                   provisions, seenArticles, candidates, seed>>
    /\ UNCHANGED <<tableVars, ingestVars, fetchVars, resolveVars, toolVars, servedVars,
                   lateVars>>

InitExtract ==
    /\ pc = "extract"
    /\ PipelineOff
    /\ TablesEmpty
    /\ IngestOff /\ FetchOff /\ ResolveOff /\ ToolsOff /\ FullDatabase
    /\ provisionText \in EuTexts
    /\ extracted = <<>>
    /\ LateOff

NextExtract == ExtractEuReferences

SpecExtract == InitExtract /\ [][NextExtract]_vars

\* the year and the number as the citation writes them: the digits on
\* either side of its first "/"
FirstSlash(citation) ==
    CHOOSE s \in 1..Len(citation) :
        citation[s] = "/" /\ \A earlier \in 1..(s - 1) : citation[earlier] # "/"
YearWritten(citation) ==
    SubSeq(citation, DigitsBack(citation, FirstSlash(citation) - 1),
           FirstSlash(citation) - 1)
NumberWritten(citation) ==
    SubSeq(citation, FirstSlash(citation) + 1,
           SkipDigits(citation, FirstSlash(citation) + 1) - 1)

\* "<type in lower case>:<year>/<number>" for a year and a number
EuDocumentIdOf(word, year, number) ==
    << IF word \in {"Regulation", "regulation"} THEN "regulation" ELSE "directive", ":" >>
        \o NumberText(year) \o <<"/">> \o NumberText(number)

IsKeyword(ch) ==
    ch \in {"implement", "Implement", "implements", "align", "aligned",
            "transpos", "transposition", "equivalent"}

\* C20: extractEuReferences gives a reference the type "implements" exactly
\* when its context window, 120 characters on each side of the citation,
\* holds a word that begins with implement, align or transpos, such as
\* "implements", "aligned" or "transposition", or the word equivalent; and
\* "references" in every other case.
C20_ImplementsByKeyword ==
    pc = "extracted" =>
        \A k \in 1..Len(extracted) :
            LET window == extracted[k].referenceContext
                keyword == \E j \in 1..Len(window) : IsKeyword(window[j])
            IN  /\ extracted[k].referenceType \in {"implements", "references"}
                /\ extracted[k].referenceType = "implements" <=> keyword

-----------------------------------------------------------------------------
(* scripts/build-db.ts: buildDatabase over a seed directory, with the EU   *)
(* tables and the build metadata (specification SpecLoad).                  *)

\* Most seed files in data/seed.
MaxSeedFiles == 2

\* a text as the run-length encoded content of a seed provision, each word
\* a run of its letters, and back
Runs(str) == [k \in 1..Len(str) |-> W(str[k], Width(str[k]))]
Words(t) == [k \in 1..Len(t) |-> t[k].c]

EuProvision(ref, str) ==
    [ provision_ref |-> ref, chapter |-> NoChapter, section |-> ref[Len(ref)],
      title |-> Null, content |-> Runs(str) ]

Directive9546EC == <<"Directive", " ", "9", "5", "/", "4", "6", "/", "EC">>

\* the contents of the seed provisions
ImplementsDirective == <<"implement", " ">> \o Directive9546EC
ImplementsArticle ==
    <<"Implement", " ">> \o Directive9546EC \o <<" ", "Article", " ", "6", "(", "1", ")">>
CitesTwo ==
    <<"Regulation", " ", "(", "EU", ")", " ", "No", " ", "2", "0", "1", "6", "/",
      "6", "7", "9", ",", " ">> \o Directive9546EC
ImplementsYear95 ==
    <<"implement", " ", "Directive", " ", "0", "0", "9", "5", "/", "0", "4", "6">>
CitesNothing == <<"a", "b", " ", "c", "d">>

\* the seed files (DocumentSeed, build-db.ts:23-36), written without
\* definitions; two files may carry the same id
SeedFilePool ==
    { [ id |-> <<"law-a">>,
        provisions |-> << EuProvision(<<"dieu", "1">>, ImplementsDirective),
                          EuProvision(<<"dieu", "2">>, ImplementsArticle) >> ],
      [ id |-> <<"law-a">>,
        provisions |-> << EuProvision(<<"dieu", "1">>, CitesTwo) >> ],
      [ id |-> <<"law-b">>,
        provisions |-> << EuProvision(<<" ", "dieu", "1">>, ImplementsArticle),
                          EuProvision(<<"dieu", "1">>, CitesTwo) >> ],
      [ id |-> <<"law-b">>,
        provisions |-> << EuProvision(<<"dieu", "1">>, ImplementsYear95),
                          EuProvision(<<"dieu", "2">>, ImplementsDirective) >> ],
      [ id |-> <<"law-c">>, provisions |-> <<>> ],
      [ id |-> <<"law-c">>,
        provisions |-> << EuProvision(<<"dieu", "1">>, CitesNothing),
                          EuProvision(<<"dieu", "2">>, ImplementsArticle),
                          EuProvision(<<"dieu", "3">>, ImplementsDirective) >> ] }

\* data/seed: absent, or the files readdirSync lists (build-db.ts:351-358)
SeedDirectories ==
    {[exists |-> FALSE, files |-> <<>>]}
    \cup {[exists |-> TRUE, files |-> files] :
             files \in SeqsUpTo(SeedFilePool, MaxSeedFiles)}

\* build-db.ts:373: the database while loadAll runs; ok is FALSE once a
\* statement has thrown outside a try
EmptyDb ==
    [ docs |-> <<>>, rows |-> {}, fts |-> EmptyBag, eudocs |-> {}, eurefs |-> {},
      primary |-> {}, ok |-> TRUE ]

\* build-db.ts:381-386
LoadedDocument(file) ==
    [ id |-> file.id, title |-> <<"Luat">>, title_en |-> <<"NULL">>,
      short_name |-> <<"NULL">>, status |-> "in_force" ]

\* build-db.ts:406
shortName(ref) ==
    << IF ref.type = "regulation" THEN "Regulation" ELSE "Directive", " " >>
        \o NumberText(ref.year) \o <<"/">> \o NumberText(ref.number)

\* build-db.ts:408-411
EuDocumentRow(ref) ==
    [ id |-> ref.euDocumentId, type |-> ref.type, year |-> ref.year,
      number |-> ref.number, community |-> ref.community,
      title |-> shortName(ref), short_name |-> shortName(ref) ]

\* build-db.ts:180-185: the CHECK constraints of eu_documents
EuDocumentChecks(row) ==
    /\ row.type \in {"directive", "regulation"}
    /\ row.year >= 1957 /\ row.year <= 2100
    /\ row.number > 0
    /\ row.community \in {"EU", "EC", "EEC", "Euratom"}

\* build-db.ts:125-128 and 408: INSERT OR IGNORE passes over a row that
\* breaks a constraint
insertEuDocument(eudocs, row) ==
    IF EuDocumentChecks(row) /\ ~\E ed \in eudocs : ed.id = row.id
    THEN eudocs \cup {row} ELSE eudocs

\* a reading in which every reference of type implements is primary
EveryImplementsPrimary(ref, primary, primaryKey) ==
    IF ref.referenceType = "implements" THEN 1 ELSE 0

\* build-db.ts:414
isPrimary(ref, primary, primaryKey) ==
    IF ref.referenceType = "implements" /\ primaryKey \notin primary THEN 1 ELSE 0

\* build-db.ts:418-423: the row insertEuReference.run is given
EuReferenceRow(id, seedId, row, ref, primary) ==
    [ id |-> id, source_type |-> "provision",
      source_id |-> seedId \o <<":">> \o row.provision_ref,
      document_id |-> seedId, provision_id |-> row.id,
      eu_document_id |-> ref.euDocumentId, eu_article |-> ref.euArticle,
      reference_type |-> ref.referenceType,
      reference_context |-> ref.referenceContext, full_citation |-> ref.fullCitation,
      is_primary_implementation |-> primary,
      implementation_status |-> IF primary = 1 THEN <<"complete">> ELSE <<"unknown">> ]

\* build-db.ts:207-220: eu_document_id REFERENCES eu_documents(id), and
\* UNIQUE(source_id, eu_document_id, eu_article), in which NULLs are distinct
EuReferenceRejected(db, new) ==
    \/ ~\E ed \in db.eudocs : ed.id = new.eu_document_id
    \/ \E er \in db.eurefs :
          /\ er.source_id = new.source_id
          /\ er.eu_document_id = new.eu_document_id
          /\ er.eu_article = new.eu_article
          /\ new.eu_article # NullText

\* build-db.ts:403-430: the references of one provision, in order
RECURSIVE LoadReferences(_, _, _, _)
LoadReferences(db, seedId, row, found) ==
    IF found = <<>> THEN db
    ELSE LET ref == Head(found)
             eudocs == insertEuDocument(db.eudocs, EuDocumentRow(ref))
             primaryKey == seedId \o <<":">> \o ref.euDocumentId
             primary == isPrimary(ref, db.primary, primaryKey)
             new == EuReferenceRow(NextRowid(db.eurefs), seedId, row, ref, primary)
             after == [db EXCEPT !.eudocs = eudocs,
                                 !.primary = IF primary = 1
                                             THEN db.primary \cup {primaryKey}
                                             ELSE db.primary]
         IN  LoadReferences(IF EuReferenceRejected(after, new) THEN after
                            ELSE [after EXCEPT !.eurefs = after.eurefs \cup {new}],
                            seedId, row, Tail(found))

\* build-db.ts:390-432: the provisions of one seed file, in order
RECURSIVE LoadProvisions(_, _, _)
LoadProvisions(db, seedId, provs) ==
    IF provs = <<>> \/ ~db.ok THEN db
    ELSE LET row == ProvisionRow(NextRowid(db.rows), seedId, Head(provs))
         IN  IF ProvisionConflict(db.rows, seedId, row.provision_ref)
             THEN [db EXCEPT !.ok = FALSE]
             ELSE LoadProvisions(
                      LoadReferences([db EXCEPT !.rows = db.rows \cup {row},
                                                !.fts = provisions_ai(db.fts, row)],
                                     seedId, row,
                                     extractEuReferences(Words(Head(provs).content))),
                      seedId, Tail(provs))

\* build-db.ts:374-441: one seed file; insertDoc.run throws on an id that
\* legal_documents holds already (build-db.ts:74)
LoadFile(db, file) ==
    IF \E k \in 1..Len(db.docs) : db.docs[k].id = file.id
    THEN [db EXCEPT !.ok = FALSE]
    ELSE LoadProvisions([db EXCEPT !.docs = Append(db.docs, LoadedDocument(file))],
                        file.id, dedupeProvisions(file.provisions))

\* build-db.ts:351-364: no seed directory or no seed file in it: the empty
\* database is closed and buildDatabase returns
CreateEmptyDatabase ==
    /\ pc = "load"
    /\ ~seedDir.exists \/ seedDir.files = <<>>
    /\ pc' = "built"
    /\ UNCHANGED <<source, articleStarts, chapterPositions, i, currentChapter,
                   provisions, seenArticles, candidates, seed>>
    /\ UNCHANGED <<tableVars, ingestVars, fetchVars, resolveVars, toolVars, servedVars,
                   extractVars, lateVars>>

\* build-db.ts:374-441: one turn of the loop of loadAll; an exception leaves
\* buildDatabase and the transaction is rolled back
LoadSeedFile ==
    /\ pc = "load"
    /\ seedDir.exists
    /\ fileIndex < Len(seedDir.files)
    /\ LET db == LoadFile([ docs |-> legal_documents, rows |-> legal_provisions,
                            fts |-> provisions_fts, eudocs |-> eu_documents,
                            eurefs |-> eu_references,
                            primary |-> primaryImplementationByDocument,
                            ok |-> TRUE ],
                          seedDir.files[fileIndex + 1])
           end == IF db.ok THEN db ELSE EmptyDb
       IN  /\ legal_documents' = end.docs
           /\ legal_provisions' = end.rows
           /\ provisions_fts' = end.fts
           /\ eu_documents' = end.eudocs
           /\ eu_references' = end.eurefs
           /\ primaryImplementationByDocument' = end.primary
           /\ lastStatement' = "insert"
           /\ fileIndex' = IF db.ok THEN fileIndex + 1 ELSE fileIndex
           /\ pc' = IF db.ok THEN "load" ELSE "build_failed"
    /\ UNCHANGED <<source, articleStarts, chapterPositions, i, currentChapter,
                   provisions, seenArticles, candidates, seed>>
    /\ UNCHANGED <<definitions, definitions_fts, input, resolved, connection, tables,
                   seedDir, db_metadata>>
    /\ UNCHANGED <<ingestVars, fetchVars, toolVars, extractVars, definitionVars,
                   sessionVars>>

\* build-db.ts:446-454: the keys insertMeta.run is called with, in order
BuildKeys ==
    <<"tier", "schema_version", "built_at", "builder", "jurisdiction", "source",
      "licence">>

\* build-db.ts:445-456, after loadAll has returned
WriteMeta ==
    /\ pc = "load"
    /\ seedDir.exists
    /\ seedDir.files # <<>>
    /\ fileIndex = Len(seedDir.files)
    /\ db_metadata' = db_metadata \o [k \in 1..Len(BuildKeys) |-> [key |-> BuildKeys[k]]]
    /\ pc' = "built"
    /\ UNCHANGED <<source, articleStarts, chapterPositions, i, currentChapter,
                   provisions, seenArticles, candidates, seed>>
    /\ UNCHANGED <<seedDir, fileIndex, primaryImplementationByDocument>>
    /\ UNCHANGED <<tableVars, ingestVars, fetchVars, resolveVars, toolVars, servedVars,
                   extractVars, definitionVars, sessionVars>>

\* buildDatabase starts on a fresh database file (build-db.ts:306-318)
InitLoad ==
    /\ pc = "load"
    /\ PipelineOff
    /\ TablesEmpty
    /\ IngestOff /\ FetchOff /\ ResolveOff /\ ToolsOff /\ FullDatabase /\ ExtractOff
    /\ DefinitionsOff /\ SessionsOff
    /\ seedDir \in SeedDirectories
    /\ fileIndex = 0
    /\ db_metadata = <<>>
    /\ primaryImplementationByDocument = {}

NextLoad ==
    \/ CreateEmptyDatabase
    \/ LoadSeedFile
    \/ WriteMeta
    \/ ExtractEuReferences

SpecLoad == (InitLoad \/ InitExtract) /\ [][NextLoad]_vars

\* C21: extractEuReferences returns no two references with the same
\* (euDocumentId, euArticle) pair, and after any build no two eu_references
\* rows share the source provision, the EU document id and the EU article,
\* where two missing articles count as the same value.
C21_ReferencesDeduplicated ==
    /\ pc = "extracted" =>
          \A j, k \in 1..Len(extracted) :
              (/\ extracted[j].euDocumentId = extracted[k].euDocumentId
               /\ extracted[j].euArticle = extracted[k].euArticle) => j = k
    /\ pc \in {"load", "built", "build_failed"} =>
          \A one, other \in eu_references :
              (/\ one.provision_id = other.provision_id
               /\ one.source_id = other.source_id
               /\ one.eu_document_id = other.eu_document_id
               /\ one.eu_article = other.eu_article) => one = other

\* a built database in which a provision that cites Directive 95/46/EC,
\* which two of the patterns match, has one reference to it
C21_Witness ==
    /\ pc = "built"
    /\ \E row \in legal_provisions :
          /\ Words(row.content) = ImplementsDirective
          /\ Cardinality({er \in eu_references : er.provision_id = row.id}) = 1

\* C22: every run of buildDatabase that completes, also on an absent or empty
\* seed directory, leaves db_metadata holding each build key (tier,
\* schema_version, built_at, builder, jurisdiction, source, licence) exactly
\* once, and no metadata row is written while seed files remain to be loaded.
C22_MetadataWrittenOnce ==
    /\ pc = "built" =>
          \A k \in 1..Len(BuildKeys) :
              Cardinality({j \in 1..Len(db_metadata) :
                              db_metadata[j].key = BuildKeys[k]}) = 1
    /\ (pc = "load" /\ fileIndex < Len(seedDir.files)) => db_metadata = <<>>

-----------------------------------------------------------------------------
(* The served database under any sequence of tool calls (specification     *)
(* SpecServe): each call runs to its end before the next one starts, as no  *)
(* tool function awaits anything.                                           *)

\* validate-eu-compliance.ts:30-40, 64-75, 78-88, 119-129
ComplianceResult(document_id, title, status, found, warnings, recommendations) ==
    [ document_id |-> document_id, document_title |-> title,
      compliance_status |-> status, eu_references_found |-> found,
      warnings |-> warnings, recommendations |-> recommendations ]

\* validate-eu-compliance.ts:97-117: the status for the rows the GROUP BY
\* statement reads
complianceStatus(rows) ==
    LET completeCount == Cardinality({er \in rows : er.implementation_status = <<"complete">>})
        partialCount == Cardinality({er \in rows : er.implementation_status = <<"partial">>})
        unknownCount == Cardinality({er \in rows : er.implementation_status = <<"unknown">>})
    IN  IF completeCount > 0 /\ partialCount = 0 /\ unknownCount = 0 THEN "compliant"
        ELSE IF partialCount > 0 THEN "partial"
        ELSE "unclear"

\* validate-eu-compliance.ts:24-130
validateEUCompliance(in) ==
    IF in.document_id = Undefined
    THEN Throws("Cannot read properties of undefined (reading 'trim')")
    ELSE IF trim(in.document_id) # <<>> /\ ~CanPrepare({})
    THEN Throws(PrepareError({}))
    ELSE LET resolvedId == resolveDocumentId(legal_documents, in.document_id)
             doc == DocumentById(legal_documents, resolvedId)
             counted == {er \in eu_references :
                            /\ er.document_id = resolvedId
                            /\ in.eu_document_id \notin {Undefined, <<>>} =>
                                  er.eu_document_id = in.eu_document_id}
             ofDocument == {er \in eu_references : er.document_id = resolvedId}
             repealed == doc.status = "repealed"
             status == complianceStatus(ofDocument)
         IN  IF resolvedId = NullText
             THEN Returns(ComplianceResult(in.document_id, <<"Unknown">>, "not_applicable",
                                           0, {"Document not found"}, {}), "none")
             ELSE IF ~CanPrepare({"eu_references"})
             THEN Returns(ComplianceResult(resolvedId, doc.title, "not_applicable", 0,
                                           {NoteReferences}, {}), "none")
             ELSE IF counted = {}
             THEN Returns(ComplianceResult(resolvedId, doc.title, "not_applicable", 0,
                                           {}, {"No EU cross-references found"}), "none")
             ELSE Returns(ComplianceResult(
                              resolvedId, doc.title, status, Cardinality(counted),
                              (IF repealed THEN {"This statute has been repealed."} ELSE {})
                                  \cup (IF status = "partial" THEN {"partial alignment"} ELSE {}),
                              (IF repealed THEN {"Check for replacement legislation."} ELSE {})
                                  \cup (IF status = "unclear"
                                           /\ \E er \in ofDocument :
                                                 er.implementation_status = <<"unknown">>
                                        THEN {"Manual review recommended."} ELSE {})),
                          "none")

\* registry.ts:372-374
CallValidateEUCompliance ==
    /\ pc = "serve"
    /\ request = NoRequest
    /\ \E document_id \in BasisDocuments, eu_document_id \in EuDocumentIds \cup {Undefined} :
          LET args == [document_id |-> document_id, eu_document_id |-> eu_document_id]
          IN  /\ request' = [tool |-> "validate_eu_compliance", args |-> args]
              /\ response' = CallToolResult(validateEUCompliance(args))
    /\ UNCHANGED <<pipelineVars, tableVars, ingestVars, fetchVars, resolveVars, servedVars, extractVars, lateVars>>

\* registry.ts:393-396 and 398-404: the handler has returned its result and
\* keeps nothing of the call
Respond ==
    /\ pc = "serve"
    /\ request # NoRequest
    /\ request' = NoRequest
    /\ response' = NoRequest
    /\ UNCHANGED <<pipelineVars, tableVars, ingestVars, fetchVars, resolveVars, servedVars, extractVars, lateVars>>

\* a built database is opened read-only (index.ts:39, http-server.ts:100)
InitServe ==
    /\ pc = "serve"
    /\ PipelineOff
    /\ IngestOff /\ FetchOff
    /\ legal_documents = << WithStatus(Constitution2013, "in_force"),
                            WithStatus(PenalCode2015, "amended") >>
    /\ legal_provisions = ServedProvisionPool
    /\ provisions_fts = SetToBag({ProvisionEntry(row) : row \in legal_provisions})
    /\ definitions = {}
    /\ definitions_fts = EmptyBag
    /\ lastStatement = "none"
    /\ input = <<>>
    /\ resolved = [state |-> "off", id |-> <<>>]
    /\ ToolsOff
    /\ ExtractOff
    /\ DefinitionsOff /\ SessionsOff
    /\ seedDir = [exists |-> TRUE, files |-> <<>>]
    /\ fileIndex = 0
    /\ db_metadata = [k \in 1..Len(BuildKeys) |-> [key |-> BuildKeys[k]]]
    /\ primaryImplementationByDocument = {}
    /\ connection = "open"
    /\ tables \in SUBSET OptionalTables
    /\ eu_documents \in IF "eu_documents" \in tables THEN SUBSET EuDocumentPool ELSE {{}}
    /\ eu_references \in IF "eu_references" \in tables THEN SUBSET EuReferencePool ELSE {{}}

NextServe ==
    \/ ValidateCitation
    \/ GetProvision
    \/ BuildLegalStance
    \/ CallGetEUBasis
    \/ CallGetProvisionEUBasis
    \/ CallGetVietnameseImplementations
    \/ CallSearchEUImplementations
    \/ CallGetProvision
    \/ CallValidateEUCompliance
    \/ CallUnknownTool
    \/ Respond
    \/ shutdown

SpecServe == InitServe /\ [][NextServe]_vars

\* what the database file holds
Corpus ==
    <<legal_documents, legal_provisions, provisions_fts, definitions, definitions_fts,
      tables, eu_documents, eu_references, db_metadata>>

\* everything the server keeps apart from the call in hand and from what
\* shutdown ends: the handle, the sessions and the listening socket
Kept ==
    <<pipelineVars, tableVars, ingestVars, fetchVars, resolveVars, tables, eu_documents,
      eu_references, extractVars, loadVars, definitionVars, posts, issued, followUp>>

\* C23: whatever tools are called, with whatever arguments and in whatever
\* order, the content of the corpus (documents, provisions, definitions, EU
\* tables, metadata) stays what it was, and nothing of a call is stored.
C23_ServeOnlyReads ==
    [][Corpus' = Corpus /\ Kept' = Kept]_vars

\* a call has been answered with rows of the EU tables
C23_Witness ==
    /\ request.tool = "get_eu_basis"
    /\ ~response.isError
    /\ response.results # {}
    /\ db_metadata # <<>>

\* C27: when validateEUCompliance is called with an eu_document_id, the
\* compliance_status is computed from the same eu_references rows that
\* eu_references_found counts, the references of the document to that EU
\* document, so its references to other EU documents change neither value.
C27_StatusOfCountedReferences ==
    (/\ request.tool = "validate_eu_compliance"
     /\ request.args.eu_document_id # Undefined
     /\ ~response.isError
     /\ response.results.eu_references_found > 0) =>
        LET counted == {er \in eu_references :
                           /\ er.document_id = response.results.document_id
                           /\ er.eu_document_id = request.args.eu_document_id}
        IN  /\ response.results.eu_references_found = Cardinality(counted)
            /\ response.results.compliance_status = complianceStatus(counted)

\* the eu_references rows of one document that refer to one EU document
SamePair(er) ==
    {other \in eu_references :
        /\ other.document_id = er.document_id
        /\ other.eu_document_id = er.eu_document_id}

\* C28: after every build, each pair (document, EU document) has at most one
\* eu_references row with is_primary_implementation = 1; that row has
\* reference_type "implements" and is the first such reference of the
\* document in load order; and a row has implementation_status "complete"
\* exactly when it is primary, "unknown" otherwise.
C28_OnePrimaryImplementation ==
    pc \in {"load", "built"} =>
        \A er \in eu_references :
            /\ er.is_primary_implementation \in {0, 1}
            /\ er.is_primary_implementation = 1 =>
                  /\ er.reference_type = "implements"
                  /\ \A other \in SamePair(er) :
                        /\ other.is_primary_implementation = 1 => other = er
                        /\ other.reference_type = "implements" => er.id <= other.id
            /\ er.implementation_status =
                  IF er.is_primary_implementation = 1 THEN <<"complete">> ELSE <<"unknown">>

\* a built database in which a document implements one EU document in two
\* provisions, and only the first reference is primary
C28_Witness ==
    /\ pc = "built"
    /\ \E one, other \in eu_references :
          /\ other \in SamePair(one)
          /\ one.id < other.id
          /\ one.reference_type = "implements" /\ other.reference_type = "implements"
          /\ one.is_primary_implementation = 1
          /\ other.is_primary_implementation = 0

\* the places of the text where one of the three patterns finds a citation
CitationStarts(str) ==
    {m.index : m \in {(MatchesFrom(str, 0, 1) \o MatchesFrom(str, 1, 1)
                          \o MatchesFrom(str, 2, 1))[k] :
                      k \in 1..Len(MatchesFrom(str, 0, 1) \o MatchesFrom(str, 1, 1)
                                      \o MatchesFrom(str, 2, 1))}}

\* C29: one citation occurrence yields at most one reference: a span of the
\* text that is a single EU citation, such as "Directive 95/46/EC", which
\* more than one pattern matches, never gives two entries of the result, so
\* the result has no more entries than the text has citations.
C29_OneReferencePerCitation ==
    pc = "extracted" => Len(extracted) <= Cardinality(CitationStarts(provisionText))

\* the part occurs literally in the column, letter case aside
OccursIn(column, part) ==
    column # NullText /\ Includes(LOWER(column), LOWER(part))

\* C26: resolveDocumentId returns a document id only if the trimmed input
\* equals that id or occurs literally, ignoring letter case, in that
\* document's title, short_name or title_en; for every other input, also one
\* that contains % or _, it returns null.
C26_LiteralMatchOnly ==
    (resolved.state = "returned" /\ resolved.id # NullText) =>
        \E k \in 1..Len(legal_documents) :
            /\ legal_documents[k].id = resolved.id
            /\ \/ trim(input) = legal_documents[k].id
               \/ OccursIn(legal_documents[k].title, trim(input))
               \/ OccursIn(legal_documents[k].short_name, trim(input))
               \/ OccursIn(legal_documents[k].title_en, trim(input))

-----------------------------------------------------------------------------
(* parseVietnameseHtml on texts with interpretation articles.              *)

\* Article bodies with a title line: "Giai thich" and "GIAI THICH" before a
\* numbered clause, "Tu ngu" before a clause too short to be kept, and two
\* articles with a title without a keyword, one of them ending in a clause.
InterpretationBodies ==
    { <<W("giai thich", 10), W("\n", 1), W("1. X la yyyyyy", 14)>>,
      <<W("GIAI THICH", 10), W("\n", 1), W("b", 30), W("1. X la yyyyyy", 14)>>,
      <<W("tu ngu", 6), W("\n", 1), W("1. X la yy", 10)>>,
      <<W("a", 20), W("\n", 1), W("b", 20)>>,
      <<W("a", 20), W("\n", 1), W("b", 30), W("1. X la yyyyyy", 14)>> }

InterpretationSegments ==
    {ArticleSegment("2", b) : b \in InterpretationBodies}
    \cup {ArticleSegment("3", <<W("giai thich", 10), W("\n", 1), W("1. X la yyyyyy", 14)>>)}

InitInterpretation ==
    /\ pc = "parse"
    /\ source \in SeqsUpTo(InterpretationSegments, MaxSegments)
    /\ articleStarts = ScanArticles(source, 1)
    /\ chapterPositions = ScanChapters(source, 1)
    /\ i = 0
    /\ currentChapter = NoChapter
    /\ provisions = <<>>
    /\ seenArticles = <<>>
    /\ candidates = <<>>
    /\ seed = <<>>
    /\ TablesEmpty
    /\ IngestOff /\ FetchOff /\ ResolveOff /\ ToolsOff /\ FullDatabase /\ ExtractOff
    /\ LateOff

NextParse ==
    \/ ParseArticle
    \/ ParseReturn

SpecParse == InitInterpretation /\ [][NextParse]_vars

\* the output of parseVietnameseHtml holds a provision with this reference
\* whose title carries a keyword
FlaggedProvision(ref) ==
    \E k \in 1..Len(provisions) :
        /\ provisions[k].provision_ref = ref
        /\ IsInterpretationTitle(provisions[k].title)

\* C24: when parseVietnameseHtml has returned, every definition of its output
\* has the provision_ref of a provision of the same output as its
\* source_provision, and the title of that stored provision contains one of
\* the keywords giai thich, tu ngu, interpretation, definition; also when an
\* article number recurs in the text.
C24_DefinitionsFromFlaggedArticles ==
    pc = "merge" =>
        \A k \in 1..Len(parsedDefinitions) :
            FlaggedProvision(parsedDefinitions[k].source_provision)

-----------------------------------------------------------------------------
(* src/http-server.ts: the sessions of the /mcp endpoint.  A session id is  *)
(* a number; randomUUID gives an id that was not given before.  The         *)
(* transport of the SDK accepts an initialize request, which makes it       *)
(* answer with its session id in the mcp-session-id header, and rejects     *)
(* every other request while it is not initialized.                         *)

\* the body of a POST without a session: an initialize request or another one
RequestKinds == {"initialize", "other"}

\* the methods of a request that carries a session id
Methods == {"POST", "GET", "DELETE"}

\* http-server.ts:201
FreshIds == {id \in SessionIds : transports[id] = "none"}
randomUUID == CHOOSE id \in FreshIds : \A other \in FreshIds : id <= other

\* a handler that creates the transport without storing it
NotRegistered(map, id) == map

\* http-server.ts:206, sessions.set(newSessionId, transport)
RegisterSession(map, id) == map \cup {id}

\* http-server.ts:208-210, transport.onclose
onclose(map, id) == map \ {id}

\* http-server.ts:197-213: the handler of a POST without a known session, up
\* to its first await
PostNewSession ==
    /\ pc = "serve"
    /\ listening
    /\ FreshIds # {}
    /\ \E kind \in RequestKinds :
          /\ sessions' = RegisterSession(sessions, randomUUID)
          /\ transports' = [transports EXCEPT ![randomUUID] = "new"]
          /\ posts' = [posts EXCEPT ![randomUUID] = [pc |-> "connected", kind |-> kind]]
    /\ UNCHANGED <<issued, followUp, listening>>
    /\ UNCHANGED <<pipelineVars, tableVars, ingestVars, fetchVars, resolveVars, toolVars,
                   servedVars, extractVars, loadVars, definitionVars>>

\* http-server.ts:214: the transport takes the request and answers it; the
\* handler waits for handleRequest to settle
HandleRequest ==
    /\ pc = "serve"
    /\ \E id \in SessionIds :
          /\ posts[id].pc = "connected"
          /\ posts' = [posts EXCEPT ![id].pc = "responding"]
          /\ IF transports[id] = "new" /\ posts[id].kind = "initialize"
             THEN /\ transports' = [transports EXCEPT ![id] = "initialized"]
                  /\ issued' = issued \cup {id}
             ELSE UNCHANGED <<transports, issued>>
    /\ UNCHANGED <<sessions, followUp, listening>>
    /\ UNCHANGED <<pipelineVars, tableVars, ingestVars, fetchVars, resolveVars, toolVars,
                   servedVars, extractVars, loadVars, definitionVars>>

\* http-server.ts:215: handleRequest has settled and the handler returns
CompleteRequest ==
    /\ pc = "serve"
    /\ \E id \in SessionIds :
          /\ posts[id].pc = "responding"
          /\ posts' = [posts EXCEPT ![id].pc = "done"]
    /\ UNCHANGED <<sessions, transports, issued, followUp, listening>>
    /\ UNCHANGED <<pipelineVars, tableVars, ingestVars, fetchVars, resolveVars, toolVars,
                   servedVars, extractVars, loadVars, definitionVars>>

\* http-server.ts:181-232: a request to /mcp that carries a session id the
\* server has issued.  A known id goes to its transport, which closes on
\* DELETE; an unknown one gets 404 on DELETE, a new session on POST and the
\* metadata on GET.
FollowUpRequest ==
    /\ pc = "serve"
    /\ listening
    /\ \E id \in issued, method \in Methods :
          LET answer(outcome) == [ id |-> id, method |-> method,
                                   transport |-> transports[id], outcome |-> outcome ]
          IN  IF id \in sessions
              THEN /\ followUp' = answer("routed")
                   /\ IF method = "DELETE"
                      THEN /\ transports' = [transports EXCEPT ![id] = "closed"]
                           /\ sessions' = onclose(sessions, id)
                      ELSE UNCHANGED <<sessions, transports>>
                   /\ UNCHANGED posts
              ELSE IF method = "DELETE"
              THEN /\ followUp' = answer("session not found")
                   /\ UNCHANGED <<sessions, transports, posts>>
              ELSE IF method = "POST"
              THEN /\ FreshIds # {}
                   /\ followUp' = answer("second session")
                   /\ sessions' = RegisterSession(sessions, randomUUID)
                   /\ transports' = [transports EXCEPT ![randomUUID] = "new"]
                   /\ \E kind \in RequestKinds :
                         posts' = [posts EXCEPT
                                      ![randomUUID] = [pc |-> "connected", kind |-> kind]]
              ELSE /\ followUp' = answer("metadata")
                   /\ UNCHANGED <<sessions, transports, posts>>
    /\ UNCHANGED <<issued, listening>>
    /\ UNCHANGED <<pipelineVars, tableVars, ingestVars, fetchVars, resolveVars, toolVars,
                   servedVars, extractVars, loadVars, definitionVars>>

\* http-server.ts:98-103, 247: the server listens, no session is open
InitHttp ==
    /\ pc = "serve"
    /\ PipelineOff
    /\ TablesEmpty
    /\ IngestOff /\ FetchOff /\ ResolveOff /\ ToolsOff /\ FullDatabase /\ ExtractOff
    /\ LateOff

NextHttp ==
    \/ PostNewSession
    \/ HandleRequest
    \/ CompleteRequest
    \/ FollowUpRequest
    \/ shutdown

SpecHttp == InitHttp /\ [][NextHttp]_vars

\* C25: a request that carries a session id the server has issued, and whose
\* transport has not been closed, is routed to that transport: it is neither
\* answered as an unknown session nor given a second session, whether the
\* POST that opened the session has returned or not.
C25_FollowUpFindsSession ==
    (followUp.id \in SessionIds /\ followUp.transport # "closed") =>
        followUp.outcome = "routed"

\* a follow-up was routed while the handler of the opening POST was still
\* waiting for handleRequest
C25_Witness ==
    /\ followUp.id \in SessionIds
    /\ followUp.outcome = "routed"
    /\ posts[followUp.id].pc = "responding"

\* C30: every id of the sessions map whose opening POST has returned belongs
\* to a transport that accepted an initialize request and was not closed, and
\* the map is empty after shutdown.
C30_SessionsAreInitialized ==
    /\ \A id \in sessions : posts[id].pc = "done" => transports[id] = "initialized"
    /\ ~listening => sessions = {}

====
